---- MODULE Spec2Model ----
(***************************************************************************)
(* A model of the omen indexer: generateIndex (indexer/generator.ts), the  *)
(* file parsers (indexer/parser.ts) and the route and schema detectors.    *)
(*                                                                         *)
(* Text is modelled as sequences of tokens.  A token is a string standing  *)
(* for a maximal run of word characters, one punctuation character, one    *)
(* whitespace character (" "), or one of the multi-character delimiters    *)
(* the code searches for (the two triple quotes, "/**", "*/").  A line is  *)
(* a sequence of tokens, a file's content is a sequence of lines           *)
(* (content.split('\n')).  The regular expressions of the code are         *)
(* written out as matchers over tokens.                                    *)
(***************************************************************************)
EXTENDS Integers, Sequences, FiniteSets, TLC

VARIABLES
  config,         \* getConfig(): the options the indexer reads
  src,            \* the file under extraction: path, text, syntax tree
  pc,             \* where control is: in parseFile, a parser, the detectors, ...
  scan,           \* the locals of the running parser (parsePythonFile / visit)
  out,            \* what extraction of src has produced so far
  files,          \* generateIndex: the enumerated batch (scanWorkspace's result)
  pos,            \* generateIndex: number of files the loop has finished
  projectIndex,   \* generateIndex: the project model being built
  detectedTechs,  \* generateIndex: the technology set
  apiEndpoints,   \* generateIndex: the endpoint accumulator
  dbTables,       \* generateIndex: the table accumulator
  errors,         \* generateIndex: paths logged by the per-file catch
  written,        \* the project model rendered by the last finished run
  runs,           \* number of generateIndex runs started
  extension       \* the extension: settings, watcher, timers, output folder, editor

vars == <<config, src, pc, scan, out, files, pos, projectIndex, detectedTechs,
          apiEndpoints, dbTables, errors, written, runs, extension>>

fileVars == <<src, scan, out>>

batchVars == <<files, pos, projectIndex, detectedTechs, apiEndpoints, dbTables,
               errors, written, runs, extension>>

-----------------------------------------------------------------------------
(* Bounds of the model. *)

MaxDocLines == 3
MaxColLines == 3
MaxRouteLines == 4
MaxImportLines == 2
MaxBatch == 2
MaxBlocks == 3
MaxRuns == 2
MaxEvents == 2
MaxGap == 11

-----------------------------------------------------------------------------
(* Strings as token sequences: the String methods the code uses. *)

SP == " "
NL == "\n"
TQ == "\"\"\""
TSQ == "'''"
Undefined == <<"<undefined>">>

\* the absent value: no result yet, or nothing found
None == [none |-> TRUE]

Range(s) == {s[k] : k \in 1..Len(s)}

Min(S) == CHOOSE x \in S : \A y \in S : x <= y

Max(S) == CHOOSE x \in S : \A y \in S : y <= x

\* s[k], or the empty string past either end
At(s, k) == IF k \in 1..Len(s) THEN s[k] ELSE ""

\* the regular expressions' \s
IsWs(t) == t \in {SP, NL}

\* the regular expressions' \w+ : a token made of word characters only
NonWord == {"", SP, NL, TQ, TSQ, "(", ")", "[", "]", "{", "}", ",", ":", "=", ".",
            "@", "'", "\"", "/", "*", "/**", "*/", "=>", ";", "users.id", "roles.id",
            "x(", "#", "-"}

IsWord(t) == t \notin NonWord

\* first position >= p holding a token that is not whitespace (Len+1 if none)
SkipWs(s, p) ==
  LET C == {q \in p..Len(s) : ~IsWs(s[q])}
  IN  IF C = {} THEN Len(s) + 1 ELSE Min(C)

\* String.prototype.trim
Trim(s) ==
  LET C == {q \in 1..Len(s) : ~IsWs(s[q])}
  IN  IF C = {} THEN <<>> ELSE SubSeq(s, Min(C), Max(C))

\* first position >= from holding token t (0 if none)
IndexOf(s, t, from) ==
  LET C == {q \in from..Len(s) : s[q] = t}
  IN  IF C = {} THEN 0 ELSE Min(C)

\* String.prototype.includes for a run of tokens
Includes(s, sub) ==
  \E k \in 0..(Len(s) - Len(sub)) : SubSeq(s, k + 1, k + Len(sub)) = sub

Count(s, t) == Cardinality({k \in 1..Len(s) : s[k] = t})

\* String.prototype.split on a one-token separator
RECURSIVE Split(_, _)
Split(s, sep) ==
  LET k == IndexOf(s, sep, 1)
  IN  IF k = 0 THEN <<s>>
      ELSE <<SubSeq(s, 1, k - 1)>> \o Split(SubSeq(s, k + 1, Len(s)), sep)

\* Array.prototype.join
RECURSIVE Join(_, _)
Join(ss, sep) ==
  IF ss = <<>> THEN <<>>
  ELSE IF Len(ss) = 1 THEN ss[1]
  ELSE ss[1] \o sep \o Join(Tail(ss), sep)

\* Array.prototype.map (filter is SelectSeq)
MapSeq(ss, F(_)) == [k \in 1..Len(ss) |-> F(ss[k])]

\* concatenation of a sequence of sequences
RECURSIVE Flatten(_)
Flatten(ss) == IF ss = <<>> THEN <<>> ELSE ss[1] \o Flatten(Tail(ss))

\* the content string: its lines joined by newlines
Text(lines) == Join(lines, <<NL>>)

\* line.match(/^(\s*)/)?.[1].length || 0
Indent(line) == SkipWs(line, 1) - 1

-----------------------------------------------------------------------------
(* parsePythonFile: the heuristic line scanner (indexer/parser.ts). *)

\* the locals of parsePythonFile at entry; i is the 0-based loop index
PyStart ==
  [i |-> 0, currentClass |-> 0, currentIndent |-> 0,
   pendingDocstring |-> Undefined, inDocstring |-> FALSE, docstringLines |-> <<>>,
   functions |-> <<>>, classes |-> <<>>, imports |-> <<>>]

HasTripleQuote(line) == TQ \in Range(line) \/ TSQ \in Range(line)

\* the quote style the code attributes to a line holding a triple quote
QuoteOf(line) == IF TQ \in Range(line) THEN TQ ELSE TSQ

\* the three branches taken on a line that holds a triple quote
DocstringRule(s, line) ==
  LET quote == QuoteOf(line)
      quoteCount == Count(line, quote)
      parts == Split(line, quote)
  IN  IF s.inDocstring
      THEN LET endContent == parts[1]
               dl == IF Trim(endContent) # <<>>
                     THEN Append(s.docstringLines, Trim(endContent))
                     ELSE s.docstringLines
           IN  [s EXCEPT !.pendingDocstring = Trim(Join(dl, <<SP>>)),
                         !.inDocstring = FALSE,
                         !.docstringLines = <<>>]
      ELSE IF quoteCount >= 2
      THEN [s EXCEPT !.pendingDocstring = Trim(parts[2])]
      ELSE LET startContent == parts[2]
           IN  [s EXCEPT !.inDocstring = TRUE,
                         !.docstringLines = IF Trim(startContent) # <<>>
                                            THEN <<Trim(startContent)>>
                                            ELSE @]

\* /^class\s+(\w+)\s*\(([^)]*)\)/
ClassMatch(line) ==
  LET p == SkipWs(line, 2)
      q == SkipWs(line, p + 1)
  IN  /\ At(line, 1) = "class"
      /\ IsWs(At(line, 2))
      /\ IsWord(At(line, p))
      /\ At(line, q) = "("
      /\ IndexOf(line, ")", q + 1) # 0

ClassRule(s, line, lineNum, indent) ==
  LET cls == [name |-> line[SkipWs(line, 2)], line |-> lineNum, methods |-> <<>>,
              isExported |-> TRUE, description |-> s.pendingDocstring,
              properties |-> <<>>]
  IN  [s EXCEPT !.classes = Append(@, cls),
                !.currentClass = Len(s.classes) + 1,
                !.currentIndent = indent,
                !.pendingDocstring = Undefined]

\* position of "Column" in /^\s+(\w+)\s*=\s*(?:db\.)?Column\((.+)/, 0 if no match
ColumnPos(line) ==
  LET p == SkipWs(line, 1)
      e == SkipWs(line, p + 1)
      v == SkipWs(line, e + 1)
      c == IF At(line, v) = "db" /\ At(line, v + 1) = "." THEN v + 2 ELSE v
  IN  IF /\ p > 1
         /\ IsWord(At(line, p))
         /\ At(line, e) = "="
         /\ At(line, c) = "Column"
         /\ At(line, c + 1) = "("
         /\ Len(line) >= c + 2
      THEN c ELSE 0

ColumnMatch(line) == ColumnPos(line) # 0

ParenBalance(s) == Count(s, "(") - Count(s, ")")

\* the while loop joining the continuation lines of a column definition;
\* j is the 0-based index of the next line, last the index of the last consumed
RECURSIVE ColumnLoop(_, _, _, _, _)
ColumnLoop(lines, j, fullDef, parenCount, last) ==
  IF parenCount > 0 /\ j < Len(lines)
  THEN LET nextLine == Trim(lines[j + 1])
       IN  ColumnLoop(lines, j + 1, fullDef \o <<SP>> \o nextLine,
                      parenCount + ParenBalance(nextLine), j)
  ELSE [fullDef |-> fullDef, i |-> last]

\* fullDef.match(/^([^,()]+)/), trimmed; 'Unknown' without a match
ColumnType(fullDef) ==
  LET C == {q \in 1..Len(fullDef) : fullDef[q] \in {",", "(", ")"}}
      n == IF C = {} THEN Len(fullDef) ELSE Min(C) - 1
  IN  IF n = 0 THEN <<"Unknown">> ELSE Trim(SubSeq(fullDef, 1, n))

\* a column branch that leaves the cursor on the line it has handled
ColumnRuleRereading(s, lines, line) ==
  LET c == ColumnPos(line)
      colName == line[SkipWs(line, 1)]
      colDef == SubSeq(line, c + 2, Len(line))
      r == ColumnLoop(lines, s.i + 1, colDef, ParenBalance(colDef), s.i)
      prop == <<colName, ":", SP>> \o ColumnType(r.fullDef)
  IN  [s EXCEPT !.classes[s.currentClass].properties = Append(@, prop),
                !.i = s.i - 1]

ColumnRule(s, lines, line) ==
  LET c == ColumnPos(line)
      colName == line[SkipWs(line, 1)]
      colDef == SubSeq(line, c + 2, Len(line))
      r == ColumnLoop(lines, s.i + 1, colDef, ParenBalance(colDef), s.i)
      prop == <<colName, ":", SP>> \o ColumnType(r.fullDef)
  IN  [s EXCEPT !.classes[s.currentClass].properties = Append(@, prop),
                !.i = r.i]

\* /^\s+(\w+)\s*:\s*(.+?)\s*(?:=|$)/
AttrMatch(line) ==
  LET p == SkipWs(line, 1)
      c == SkipWs(line, p + 1)
  IN  /\ p > 1
      /\ IsWord(At(line, p))
      /\ At(line, c) = ":"
      /\ Len(line) > c

AttrRule(s, line) ==
  LET p == SkipWs(line, 1)
      c == SkipWs(line, p + 1)
      t == IF SkipWs(line, c + 1) > Len(line) THEN c + 1 ELSE SkipWs(line, c + 1)
      attrType == Trim(Split(SubSeq(line, t, Len(line)), "=")[1])
      prop == <<line[p], ":", SP>> \o attrType
  IN  [s EXCEPT !.classes[s.currentClass].properties = Append(@, prop)]

\* (?:async\s+)?def\s+(\w+)\s*\(([^)]*)\) starting at position p:
\* the positions of the name, the "(" and the ")" , or 0 without a match
DefParts(line, p) ==
  LET a == IF At(line, p) = "async" /\ IsWs(At(line, p + 1))
                /\ At(line, SkipWs(line, p + 1)) = "def"
           THEN SkipWs(line, p + 1) ELSE p
      n == SkipWs(line, a + 1)
      q == SkipWs(line, n + 1)
      close == IndexOf(line, ")", q + 1)
  IN  IF /\ At(line, a) = "def"
         /\ IsWs(At(line, a + 1))
         /\ IsWord(At(line, n))
         /\ At(line, q) = "("
         /\ close # 0
      THEN [name |-> n, open |-> q, close |-> close]
      ELSE [name |-> 0, open |-> 0, close |-> 0]

\* /^(\s*)(?:async\s+)?def\s+(\w+)\s*\(([^)]*)\)/
MethodMatch(line) == DefParts(line, SkipWs(line, 1)).name # 0

\* /^(?:async\s+)?def\s+(\w+)\s*\(([^)]*)\)/
FuncMatch(line) == DefParts(line, 1).name # 0

\* paramsStr.split(',').map(p => p.trim())
ParamList(line, d) ==
  MapSeq(Split(SubSeq(line, d.open + 1, d.close - 1), ","), Trim)

IsMethodParam(p) == p # <<"self">> /\ p # <<"cls">> /\ p # <<>>

IsFuncParam(p) == p # <<>>

\* a method branch that leaves the pending docstring in place
MethodRuleKeepingDocstring(s, line, lineNum) ==
  LET d == DefParts(line, SkipWs(line, 1))
      m == [name |-> line[d.name],
            params |-> SelectSeq(ParamList(line, d), IsMethodParam),
            returnType |-> Undefined,
            line |-> lineNum,
            isAsync |-> Includes(line, <<"async", SP, "def">>),
            isExported |-> FALSE,
            description |-> s.pendingDocstring]
  IN  [s EXCEPT !.classes[s.currentClass].methods = Append(@, m)]

MethodRule(s, line, lineNum) ==
  LET d == DefParts(line, SkipWs(line, 1))
      m == [name |-> line[d.name],
            params |-> SelectSeq(ParamList(line, d), IsMethodParam),
            returnType |-> Undefined,
            line |-> lineNum,
            isAsync |-> Includes(line, <<"async", SP, "def">>),
            isExported |-> FALSE,
            description |-> s.pendingDocstring]
  IN  [s EXCEPT !.classes[s.currentClass].methods = Append(@, m),
                !.pendingDocstring = Undefined]

\* a scanner that numbers the lines from 0
FuncRuleZeroBased(s, line, lineNum) ==
  LET d == DefParts(line, 1)
      f == [name |-> line[d.name],
            params |-> SelectSeq(ParamList(line, d), IsFuncParam),
            returnType |-> Undefined,
            line |-> s.i,
            isAsync |-> Includes(line, <<"async", SP, "def">>),
            isExported |-> TRUE,
            description |-> s.pendingDocstring]
  IN  [s EXCEPT !.functions = Append(@, f),
                !.pendingDocstring = Undefined,
                !.currentClass = 0]

FuncRule(s, line, lineNum) ==
  LET d == DefParts(line, 1)
      f == [name |-> line[d.name],
            params |-> SelectSeq(ParamList(line, d), IsFuncParam),
            returnType |-> Undefined,
            line |-> lineNum,
            isAsync |-> Includes(line, <<"async", SP, "def">>),
            isExported |-> TRUE,
            description |-> s.pendingDocstring]
  IN  [s EXCEPT !.functions = Append(@, f),
                !.pendingDocstring = Undefined,
                !.currentClass = 0]

\* "Reset current class if back at top level"
ResetRule(s, line, indent) ==
  IF indent = 0 /\ s.currentClass # 0 /\ Trim(line) # <<>>
  THEN [s EXCEPT !.currentClass = 0] ELSE s

\* /^(?:from\s+(\S+)\s+)?import\s+(.+)/ : position of "import", 0 if no match
ImportPos(line) ==
  LET m == SkipWs(line, 2)
      e == IF IndexOf(line, SP, m) = 0 THEN Len(line) + 1 ELSE IndexOf(line, SP, m)
      k == IF At(line, 1) = "from" /\ IsWs(At(line, 2)) /\ m <= Len(line)
           THEN SkipWs(line, e) ELSE 1
  IN  IF /\ At(line, k) = "import"
         /\ IsWs(At(line, k + 1))
         /\ SkipWs(line, k + 1) <= Len(line)
      THEN k ELSE 0

AliasDropped(item) ==
  LET t == Trim(item)
      C == {q \in 1..(Len(t) - 2) : SubSeq(t, q, q + 2) = <<SP, "as", SP>>}
  IN  IF C = {} THEN t ELSE Trim(SubSeq(t, 1, Min(C) - 1))

\* an import branch that does not look at the includeImports option
ImportRuleAlways(s, line, lineNum, includeImports) ==
  LET k == ImportPos(line)
      names == SubSeq(line, SkipWs(line, k + 1), Len(line))
      from == IF k = 1 THEN <<>>
              ELSE SubSeq(line, SkipWs(line, 2), IndexOf(line, SP, SkipWs(line, 2)) - 1)
      imp == [source |-> IF from # <<>> THEN from ELSE Trim(Split(names, ",")[1]),
              imports |-> MapSeq(Split(names, ","), AliasDropped),
              line |-> lineNum]
  IN  IF k # 0 THEN [s EXCEPT !.imports = Append(@, imp)] ELSE s

ImportRule(s, line, lineNum, includeImports) ==
  LET k == ImportPos(line)
      names == SubSeq(line, SkipWs(line, k + 1), Len(line))
      from == IF k = 1 THEN <<>>
              ELSE SubSeq(line, SkipWs(line, 2), IndexOf(line, SP, SkipWs(line, 2)) - 1)
      imp == [source |-> IF from # <<>> THEN from ELSE Trim(Split(names, ",")[1]),
              imports |-> MapSeq(Split(names, ","), AliasDropped),
              line |-> lineNum]
  IN  IF includeImports /\ k # 0
      THEN [s EXCEPT !.imports = Append(@, imp)] ELSE s

\* one iteration of the for loop over the lines
PyStep(s, lines, includeImports) ==
  LET line == lines[s.i + 1]
      lineNum == s.i + 1
      indent == Indent(line)
      inBody == s.currentClass # 0 /\ indent > s.currentIndent
      t == IF HasTripleQuote(line) THEN DocstringRule(s, line)
           ELSE IF s.inDocstring
             THEN [s EXCEPT !.docstringLines = Append(@, Trim(line))]
           ELSE IF ClassMatch(line) THEN ClassRule(s, line, lineNum, indent)
           ELSE IF inBody /\ ColumnMatch(line) THEN ColumnRule(s, lines, line)
           ELSE IF inBody /\ AttrMatch(line) /\ ~Includes(line, <<"def", SP>>)
             THEN AttrRule(s, line)
           ELSE IF MethodMatch(line) /\ inBody THEN MethodRule(s, line, lineNum)
           ELSE IF FuncMatch(line) /\ indent = 0 THEN FuncRule(s, line, lineNum)
           ELSE ImportRule(ResetRule(s, line, indent), line, lineNum, includeImports)
  IN  [t EXCEPT !.i = @ + 1]

\* the whole loop, from the locals s
RECURSIVE PyLoop(_, _, _)
PyLoop(s, lines, includeImports) ==
  IF s.i < Len(lines) THEN PyLoop(PyStep(s, lines, includeImports), lines, includeImports)
  ELSE s

\* path.relative(workspaceRoot, filePath): the path below the workspace root
RelativePath(path) == SubSeq(path, 4, Len(path))

\* the FileIndex a parser returns
FileIndexOf(path, language, s) ==
  [path |-> path, relativePath |-> RelativePath(path), functions |-> s.functions,
   classes |-> s.classes, interfaces |-> <<>>, imports |-> s.imports,
   language |-> language]

parsePythonFile(path, lines, includeImports) ==
  FileIndexOf(path, "python", PyLoop(PyStart, lines, includeImports))

-----------------------------------------------------------------------------
(* Route and schema detectors for Python files (indexer/generator.ts). *)

FlaskWindow == 10

QuoteChars == {"'", "\""}

\* /@\w+\.route\s*\(\s*['"]([^'"]+)['"]/ : the captured path of the first
\* match in the line, <<>> without a match
RoutePathAt(line, k) ==
  LET o == SkipWs(line, k + 4)
      q == SkipWs(line, o + 1)
      C == {c \in (q + 1)..Len(line) : line[c] \in QuoteChars}
  IN  IF /\ At(line, k) = "@"
         /\ IsWord(At(line, k + 1))
         /\ At(line, k + 2) = "."
         /\ At(line, k + 3) = "route"
         /\ At(line, o) = "("
         /\ At(line, q) \in QuoteChars
         /\ C # {}
         /\ Min(C) > q + 1
      THEN SubSeq(line, q + 1, Min(C) - 1) ELSE <<>>

RoutePath(line) ==
  LET K == {k \in 1..Len(line) : RoutePathAt(line, k) # <<>>}
  IN  IF K = {} THEN <<>> ELSE RoutePathAt(line, Min(K))

\* /methods\s*=\s*\[([^\]]+)\]/ : the captured list text of the first match
MethodsStrAt(line, k) ==
  LET e == SkipWs(line, k + 1)
      b == SkipWs(line, e + 1)
      close == IndexOf(line, "]", b + 1)
  IN  IF /\ At(line, k) = "methods"
         /\ At(line, e) = "="
         /\ At(line, b) = "["
         /\ close > b + 1
      THEN SubSeq(line, b + 1, close - 1) ELSE <<>>

HasMethodsList(line) == \E k \in 1..Len(line) : MethodsStrAt(line, k) # <<>>

MethodsStr(line) ==
  MethodsStrAt(line, Min({k \in 1..Len(line) : MethodsStrAt(line, k) # <<>>}))

\* tokens of upper-case letters only: [A-Z]+
UpperWords == {"GET", "POST", "PUT", "PATCH", "DELETE", "HEAD", "OPTIONS"}

\* methodsStr.match(/['"]([A-Z]+)['"]/g)?.map(m => m.replace(/['"]/g, '')) || []
RECURSIVE QuotedUpper(_)
QuotedUpper(s) ==
  IF Len(s) < 3 THEN <<>>
  ELSE IF s[1] \in QuoteChars /\ s[2] \in UpperWords /\ s[3] \in QuoteChars
  THEN <<s[2]>> \o QuotedUpper(SubSeq(s, 4, Len(s)))
  ELSE QuotedUpper(Tail(s))

\* the endpoints extractFlaskRoutes pushes for one function
FlaskEndpointsOf(func, fileIndex, lines) ==
  LET lo == IF func.line - FlaskWindow > 0 THEN func.line - FlaskWindow ELSE 0
      \* 0-based indexes lo .. func.line - 1, cut at lines.length
      win == {k \in (lo + 1)..func.line : k <= Len(lines)}
      R == {k \in win : RoutePath(lines[k]) # <<>>}
      M == {k \in win : HasMethodsList(lines[k])}
      routePath == IF R = {} THEN <<>> ELSE RoutePath(lines[Max(R)])
      routeMethods == IF M = {} THEN <<>> ELSE QuotedUpper(MethodsStr(lines[Max(M)]))
      methods == IF Len(routeMethods) > 0 THEN routeMethods ELSE <<"GET">>
      text == Text(lines)
  IN  IF routePath = <<>> THEN <<>>
      ELSE [k \in 1..Len(methods) |->
              [method |-> methods[k], path |-> routePath, handler |-> <<func.name>>,
               file |-> fileIndex.relativePath, line |-> func.line,
               auth |-> \/ Includes(text, <<"@", "jwt_required">>)
                        \/ Includes(text, <<"@", "login_required">>)]]

extractFlaskRoutes(fileIndex, lines, endpoints) ==
  endpoints \o Flatten([k \in 1..Len(fileIndex.functions) |->
                          FlaskEndpointsOf(fileIndex.functions[k], fileIndex, lines)])

\* pairs <<n, t>> of word tokens of the model such that n is a proper suffix of t
ProperSuffix == {<<"id", "user_id">>, <<"id", "role_id">>, <<"View", "APIView">>,
                 <<"View", "WidgetView">>, <<"Field", "CharField">>,
                 <<"Field", "IntegerField">>}

\* a regular expression that begins with the text of name matches at the end of tok
EndsWith(tok, name) == tok = name \/ <<name, tok>> \in ProperSuffix

\* new RegExp(`${name}\s*=\s*(?:db\.)?Column\([^)]+\)`, 's') matched at k:
\* the position of the closing ")" , 0 without a match
ColDefEnd(text, name, k) ==
  LET e == SkipWs(text, k + 1)
      v == SkipWs(text, e + 1)
      c == IF At(text, v) = "db" /\ At(text, v + 1) = "." THEN v + 2 ELSE v
      close == IndexOf(text, ")", c + 2)
  IN  IF /\ EndsWith(At(text, k), name)
         /\ At(text, e) = "="
         /\ At(text, c) = "Column"
         /\ At(text, c + 1) = "("
         /\ close > c + 2
      THEN close ELSE 0

\* content.match(...) : the text of the first match, <<>> without a match
ColDefMatch(text, name) ==
  LET K == {k \in 1..Len(text) : ColDefEnd(text, name, k) # 0}
  IN  IF K = {} THEN <<>>
      ELSE <<name>> \o SubSeq(text, Min(K) + 1, ColDefEnd(text, name, Min(K)))

\* tokens matching [\w.]+
IsDotted(t) == IsWord(t) \/ t \in {"users.id", "roles.id"}

\* s.match(/ForeignKey\(['"]([\w.]+)['"]/)?.[1]
ForeignKeyOf(s) ==
  LET K == {k \in 1..Len(s) : /\ s[k] = "ForeignKey"
                              /\ At(s, k + 1) = "("
                              /\ At(s, k + 2) \in QuoteChars
                              /\ IsDotted(At(s, k + 3))
                              /\ At(s, k + 4) \in QuoteChars}
  IN  IF K = {} THEN Undefined ELSE <<s[Min(K) + 3]>>

\* s.replace('db.', '') : the first occurrence removed
DropDbPrefix(s) ==
  LET K == {k \in 1..(Len(s) - 1) : s[k] = "db" /\ s[k + 1] = "."}
  IN  IF K = {} THEN s
      ELSE SubSeq(s, 1, Min(K) - 1) \o SubSeq(s, Min(K) + 2, Len(s))

\* the DbColumn built from one "name: type" property
SqlaColumn(prop, text) ==
  LET parts == MapSeq(Split(prop, ":"), Trim)
      name == parts[1]
      typeInfo == parts[2]
      m == IF Len(name) = 1 THEN ColDefMatch(text, name[1]) ELSE <<>>
      fullDef == IF m # <<>> THEN m ELSE typeInfo
  IN  [name |-> name,
       type |-> DropDbPrefix(Split(typeInfo, "(")[1]),
       nullable |-> ~Includes(fullDef, <<"nullable", "=", "False">>),
       primary |-> Includes(fullDef, <<"primary_key", "=", "True">>),
       foreign |-> ForeignKeyOf(fullDef)]

SqlaTableOf(cls, fileIndex, text) ==
  IF Len(cls.properties) > 0
  THEN <<[name |-> cls.name, file |-> fileIndex.relativePath, line |-> cls.line,
          columns |-> [k \in 1..Len(cls.properties) |->
                         SqlaColumn(cls.properties[k], text)]]>>
  ELSE <<>>

extractSQLAlchemySchema(fileIndex, lines, tables) ==
  LET text == Text(lines)
  IN  IF ~Includes(text, <<"db", ".", "Model">>) /\ "Base" \notin Range(text)
      THEN tables
      ELSE tables \o Flatten([k \in 1..Len(fileIndex.classes) |->
                                SqlaTableOf(fileIndex.classes[k], fileIndex, text)])

-----------------------------------------------------------------------------
(* Input lines of Python files, by theme. *)

IND == <<SP, SP, SP, SP>>

\* docstrings
LClassUser == <<"class", SP, "User", "(", "Base", ")", ":">>
LDocOne == IND \o <<TQ, "User", SP, "model", TQ>>
LDocOneSingle == IND \o <<TSQ, SP, "Audit", SP, "row", SP, TSQ>>
LDocOpen == IND \o <<TQ, "Summary">>
LDocInner == IND \o <<"details", SP, "here", SP>>
LDocInnerQuote == IND \o <<"uses", SP, TSQ, "raw", TSQ, SP, "text">>
LBlank == <<>>
LDocClose == IND \o <<"end", TQ>>
LDocBare == IND \o <<TQ>>
LDefSave == IND \o <<"def", SP, "save", "(", "self", ")", ":">>

DocLines == {LClassUser, LDocOne, LDocOneSingle, LDocOpen, LDocInner, LDocInnerQuote,
             LBlank, LDocClose, LDocBare, LDefSave}

\* declarative columns
LColId == IND \o <<"id", SP, "=", SP, "Column", "(", "Integer", ",", SP,
                   "primary_key", "=", "True", ")">>
LColEmail == IND \o <<"email", SP, "=", SP, "Column", "(", "String", "(", "120", ")",
                      ",", SP, "nullable", "=", "False", ")">>
LColUserId == IND \o <<"user_id", SP, "=", SP, "Column", "(", "Integer", ",", SP,
                       "ForeignKey", "(", "'", "users.id", "'", ")", ")">>
LColName == IND \o <<"name", SP, "=", SP, "db", ".", "Column", "(", "db", ".", "Text",
                     ",", SP, "nullable", "=", "False", ")">>
LColRoleOpen == IND \o <<"role_id", SP, "=", SP, "Column", "(", "Integer", ",", SP,
                         "ForeignKey", "(">>
LColRoleClose == IND \o IND \o <<"'", "roles.id", "'", ")", ")">>

ColLines == {LClassUser, LColId, LColEmail, LColUserId, LColName, LColRoleOpen,
             LColRoleClose}

\* route decorators
LRouteWidgets == <<"@", "app", ".", "route", "(", "'", "/widgets", "'", ",", SP,
                   "methods", "=", "[", "'", "GET", "'", ",", SP, "'", "POST", "'",
                   "]", ")">>
LRouteThings == <<"@", "bp", ".", "route", "(", "\"", "/things", "\"", ")">>
LDefListWidgets == <<"def", SP, "list_widgets", "(", ")", ":">>
LDefGetThing == <<"async", SP, "def", SP, "get_thing", "(", "thing_id", ")", ":">>
LLoginRequired == <<"@", "login_required">>
LFromFlask == <<"from", SP, "flask", SP, "import", SP, "Flask", ",", SP,
                "request", SP, "as", SP, "req">>

LImportOs == <<"import", SP, "os", ",", SP, "sys">>

RouteLines == {LRouteWidgets, LRouteThings, LDefListWidgets, LDefGetThing,
               LLoginRequired}

ImportLines == {LFromFlask, LImportOs, LDefGetThing}

\* routes declared for other HTTP verbs
LRoutePing == <<"@", "app", ".", "route", "(", "'", "/ping", "'", ",", SP,
                "methods", "=", "[", "'", "HEAD", "'", "]", ")">>
LApiViewOptions == <<"@", "api_view", "(", "[", "'", "OPTIONS", "'", "]", ")">>

VerbLines == {LRoutePing, LApiViewOptions, LDefListWidgets}

\* a class that carries the markers of two ORMs
LClassPost == <<"class", SP, "Post", "(", "models", ".", "Model", ")", ":">>
LFieldTitle == IND \o <<"title", SP, "=", SP, "models", ".", "CharField", "(",
                        "max_length", "=", "10", ")">>

SchemaLines == {LClassPost, LColId, LFieldTitle, LClassUser}

\* strings and statements at top level, code-shaped text inside a string
LRawNote == <<TSQ, "raw", TSQ>>

StringLines == {LClassUser, LDocBare, LRawNote, LDefSave, LImportOs}

\* column calls broken over two lines
LColEmailOpen == IND \o <<"email", SP, "=", SP, "Column", "(", "String", "(", "120",
                          ")", ",">>
LColEmailClose == IND \o IND \o <<"nullable", "=", "False", ")">>
LColEmailDoc == IND \o IND \o <<"doc", "=", TQ, "Primary", SP, "address", TQ, ")">>

SpanLines == {LClassUser, LColEmailOpen, LColEmailClose, LColEmailDoc, LColRoleOpen,
              LColRoleClose}

\* a route decorator, n blank lines, and the function it decorates
GapLines(n) == <<LRouteThings>> \o [k \in 1..n |-> LBlank] \o <<LDefListWidgets>>

\* every sequence of 1..n lines drawn from the set L
SeqsUpTo(L, n) == UNION {[1..k -> L] : k \in 1..n}

WorkspaceRoot == <<"/", "proj">>

PyPath == WorkspaceRoot \o <<"/", "app", "/", "models", ".", "py">>


-----------------------------------------------------------------------------
(* parseTypeScriptFile: the syntax-tree extractor (indexer/parser.ts).      *)
(* ts.createSourceFile is a library call: its result comes with the input,  *)
(* as src.ast, the sequence of the file's top-level nodes.  A node carries  *)
(* its kind, its start line (getStart), its leading trivia (the text from   *)
(* getFullStart to getStart) and what the extractors read from it.          *)

\* line.replace(/^\s*\*\s?/, '').trim()
StripStar(line) ==
  LET p == SkipWs(line, 1)
  IN  IF At(line, p) = "*" THEN Trim(SubSeq(line, p + 1, Len(line))) ELSE Trim(line)

\* line && !line.startsWith('@')
KeepDocLine(line) == line # <<>> /\ line[1] # "@"

\* extractJSDoc on the leading trivia of a node: /\/\*\*([\s\S]*?)\*\// is
\* matched once, from the start of the trivia
extractJSDoc(trivia) ==
  LET a == IndexOf(trivia, "/**", 1)
      b == IF a = 0 THEN 0 ELSE IndexOf(trivia, "*/", a + 1)
  IN  IF a = 0 \/ b = 0 THEN Undefined
      ELSE Trim(Join(SelectSeq(MapSeq(Split(SubSeq(trivia, a + 1, b - 1), NL),
                                      StripStar),
                               KeepDocLine),
                     <<SP>>))

\* extractFunctionInfo and extractArrowFunctionInfo; for an arrow function the
\* trivia is that of the enclosing variable statement, which is the node here
extractFunctionInfo(node) ==
  [name |-> node.name, params |-> node.params, returnType |-> node.returnType,
   line |-> node.line, isAsync |-> node.async, isExported |-> node.exported,
   description |-> extractJSDoc(node.trivia)]

\* `${propName}: ${propType}`
MemberProperty(m) ==
  m.name \o <<":", SP>> \o (IF m.type = Undefined THEN <<"any">> ELSE m.type)

MemberMethod(m) ==
  [name |-> m.name, params |-> m.params, returnType |-> m.returnType,
   line |-> m.line, isAsync |-> m.async, isExported |-> FALSE,
   description |-> extractJSDoc(m.trivia)]

IsPropertyMember(m) == m.kind = "property"

IsMethodMember(m) == m.kind = "method"

extractClassInfo(node) ==
  [name |-> node.name, line |-> node.line,
   methods |-> MapSeq(SelectSeq(node.members, IsMethodMember), MemberMethod),
   isExported |-> node.exported,
   description |-> extractJSDoc(node.trivia),
   properties |-> MapSeq(SelectSeq(node.members, IsPropertyMember), MemberProperty)]

extractInterfaceInfo(node) ==
  [name |-> node.name, line |-> node.line, properties |-> node.properties,
   isExported |-> node.exported, description |-> extractJSDoc(node.trivia)]

extractImportInfo(node) ==
  [source |-> node.source, imports |-> node.symbols, line |-> node.line]

\* the fileIndex of parseTypeScriptFile before the traversal; k counts the
\* top-level nodes visited
TsStart(language) ==
  [k |-> 0, language |-> language, functions |-> <<>>, classes |-> <<>>,
   interfaces |-> <<>>, imports |-> <<>>]

\* visit(node) for one top-level node.  ts.forEachChild(node, visit) also descends
\* into the node; the syntax trees modelled here declare nothing below top level.
TsVisit(s, node, cfg) ==
  LET t == IF node.kind \in {"function", "arrow"}
             THEN [s EXCEPT !.functions = Append(@, extractFunctionInfo(node))]
           ELSE IF node.kind = "class" /\ cfg.includeClasses
             THEN [s EXCEPT !.classes = Append(@, extractClassInfo(node))]
           ELSE IF node.kind \in {"interface", "typeAlias"} /\ cfg.includeInterfaces
             THEN [s EXCEPT !.interfaces = Append(@, extractInterfaceInfo(node))]
           ELSE IF node.kind = "import" /\ cfg.includeImports
             THEN [s EXCEPT !.imports = Append(@, extractImportInfo(node))]
           ELSE s
  IN  [t EXCEPT !.k = @ + 1]

RECURSIVE TsLoop(_, _, _)
TsLoop(s, ast, cfg) ==
  IF s.k < Len(ast) THEN TsLoop(TsVisit(s, ast[s.k + 1], cfg), ast, cfg) ELSE s

TsFileIndexOf(path, s) ==
  [path |-> path, relativePath |-> RelativePath(path), functions |-> s.functions,
   classes |-> s.classes, interfaces |-> s.interfaces, imports |-> s.imports,
   language |-> s.language]

parseTypeScriptFile(path, ast, language, cfg) ==
  TsFileIndexOf(path, TsLoop(TsStart(language), ast, cfg))

-----------------------------------------------------------------------------
(* parseFile: the dispatch on the file extension. *)

\* path.extname: from the last "." of the last path segment, unless that
\* segment has none or begins with it
ExtName(path) ==
  LET S == {k \in 1..Len(path) : path[k] = "/"}
      base == IF S = {} THEN path ELSE SubSeq(path, Max(S) + 1, Len(path))
      D == {k \in 1..Len(base) : base[k] = "."}
  IN  IF D = {} \/ Max(D) = 1 THEN <<>> ELSE SubSeq(base, Max(D), Len(base))

\* a dispatch that takes .jsx for TypeScript
LanguageOfJsxTyped(ext) ==
  IF ext \in {<<".", "ts">>, <<".", "tsx">>, <<".", "jsx">>} THEN "typescript"
  ELSE IF ext = <<".", "js">> THEN "javascript"
  ELSE IF ext = <<".", "py">> THEN "python"
  ELSE "unsupported"

\* the language parseFile assigns, "unsupported" where it throws
LanguageOf(ext) ==
  IF ext = <<".", "ts">> \/ ext = <<".", "tsx">> THEN "typescript"
  ELSE IF ext = <<".", "js">> \/ ext = <<".", "jsx">> THEN "javascript"
  ELSE IF ext = <<".", "py">> THEN "python"
  ELSE "unsupported"

\* parseFile(filePath, content, workspaceRoot): the FileIndex, or the throw
parseFile(f, cfg) ==
  LET language == LanguageOf(ExtName(f.path))
  IN  IF language = "python"
        THEN [threw |-> FALSE, via |-> "parsePythonFile",
              file |-> parsePythonFile(f.path, f.lines, cfg.includeImports)]
      ELSE IF language = "unsupported"
        THEN [threw |-> TRUE, via |-> "none", file |-> None]
      ELSE [threw |-> FALSE, via |-> "parseTypeScriptFile",
            file |-> parseTypeScriptFile(f.path, f.ast, language, cfg)]

-----------------------------------------------------------------------------
(* Route and schema detectors for TypeScript and JavaScript files. *)

\* a line count that starts from 0
LineOfPosZeroBased(text, k) == Count(SubSeq(text, 1, k - 1), NL)

\* 1 + the number of newlines before position k of the content
LineOfPos(text, k) == 1 + Count(SubSeq(text, 1, k - 1), NL)

\* a quoted literal opening at position q: the position of its closing quote,
\* 0 if there is none; least is the least number of tokens between the quotes
QuotedEnd(text, q, least) ==
  LET C == {c \in (q + 1)..Len(text) : text[c] \in QuoteChars}
  IN  IF At(text, q) \in QuoteChars /\ C # {} /\ Min(C) - q - 1 >= least
      THEN Min(C) ELSE 0

\* /(?:app|router)\.<verb>\s*\(\s*['"]([^'"]+)['"]/g matched at position k
ExpressMatchAt(text, k, verb) ==
  LET o == SkipWs(text, k + 3)
      q == SkipWs(text, o + 1)
  IN  /\ EndsWith(At(text, k), "app") \/ EndsWith(At(text, k), "router")
      /\ At(text, k + 1) = "."
      /\ At(text, k + 2) = verb
      /\ At(text, o) = "("
      /\ QuotedEnd(text, q, 1) # 0

ExpressPath(text, k) ==
  LET q == SkipWs(text, SkipWs(text, k + 3) + 1)
  IN  SubSeq(text, q + 1, QuotedEnd(text, q, 1) - 1)

\* the positions of a set in increasing order
RECURSIVE Sorted(_)
Sorted(S) == IF S = {} THEN <<>> ELSE <<Min(S)>> \o Sorted(S \ {Min(S)})

HasAuthText(text, words) == \E k \in 1..Len(text) : text[k] \in words

ExpressVerbs == <<"get", "post", "put", "delete", "patch">>

ExpressMethods == <<"GET", "POST", "PUT", "DELETE", "PATCH">>

ExpressEndpointsOf(idx, fileIndex, text) ==
  LET K == Sorted({k \in 1..Len(text) : ExpressMatchAt(text, k, ExpressVerbs[idx])})
  IN  [n \in 1..Len(K) |->
         [method |-> ExpressMethods[idx], path |-> ExpressPath(text, K[n]),
          handler |-> <<"handler">>, file |-> fileIndex.relativePath,
          line |-> LineOfPos(text, K[n]),
          auth |-> HasAuthText(text, {"authenticate", "authMiddleware"})]]

extractExpressRoutes(fileIndex, lines, endpoints) ==
  endpoints \o Flatten([idx \in 1..Len(ExpressVerbs) |->
                          ExpressEndpointsOf(idx, fileIndex, Text(lines))])

\* /@<Name>\s*\(\s*['"]([^'"]*)['"]/ matched at position k
DecoratorArgAt(text, k, name) ==
  LET o == SkipWs(text, k + 2)
      q == SkipWs(text, o + 1)
  IN  /\ At(text, k) = "@"
      /\ At(text, k + 1) = name
      /\ At(text, o) = "("
      /\ QuotedEnd(text, q, 0) # 0

DecoratorArg(text, k) ==
  LET q == SkipWs(text, SkipWs(text, k + 2) + 1)
  IN  SubSeq(text, q + 1, QuotedEnd(text, q, 0) - 1)

\* content.substring(startPos).match(/async\s+(\w+)\s*\(|\s+(\w+)\s*\(/)
NestHandlerAt(text, p) ==
  LET n == SkipWs(text, p + 1)
      o == SkipWs(text, n + 1)
  IN  IF /\ At(text, p) = "async" \/ IsWs(At(text, p))
         /\ IsWs(At(text, p + 1)) \/ IsWs(At(text, p))
         /\ IsWord(At(text, n))
         /\ At(text, o) = "("
      THEN At(text, n) ELSE ""

NestHandler(text, k) ==
  LET P == {p \in k..Len(text) : NestHandlerAt(text, p) # ""}
  IN  IF P = {} THEN "handler" ELSE NestHandlerAt(text, Min(P))

NestDecorators == <<"Get", "Post", "Put", "Delete", "Patch">>

NestEndpointsOf(idx, fileIndex, text) ==
  LET C == {k \in 1..Len(text) : DecoratorArgAt(text, k, "Controller")}
      basePath == IF C = {} THEN <<>> ELSE <<"/">> \o DecoratorArg(text, Min(C))
      K == Sorted({k \in 1..Len(text) : DecoratorArgAt(text, k, NestDecorators[idx])})
  IN  [n \in 1..Len(K) |->
         [method |-> ExpressMethods[idx],
          path |-> basePath \o (IF DecoratorArg(text, K[n]) # <<>>
                                THEN <<"/">> \o DecoratorArg(text, K[n]) ELSE <<>>),
          handler |-> <<NestHandler(text, K[n])>>,
          file |-> fileIndex.relativePath,
          line |-> LineOfPos(text, K[n]),
          auth |-> Includes(text, <<"@", "UseGuards">>) \/ "AuthGuard" \in Range(text)]]

extractNestJSRoutes(fileIndex, lines, endpoints) ==
  endpoints \o Flatten([idx \in 1..Len(NestDecorators) |->
                          NestEndpointsOf(idx, fileIndex, Text(lines))])

\* /\/(?:pages|app)\/api\/(.+)\.(?:ts|js|tsx|jsx)$/ : the captured group of
\* the match, <<>> without a match
ApiMatch(path) ==
  LET n == Len(path)
      K == {k \in 1..(n - 7) : /\ path[k] = "/"
                               /\ path[k + 1] \in {"pages", "app"}
                               /\ path[k + 2] = "/"
                               /\ path[k + 3] = "api"
                               /\ path[k + 4] = "/"}
  IN  IF K # {} /\ At(path, n - 1) = "." /\ At(path, n) \in {"ts", "js", "tsx", "jsx"}
      THEN SubSeq(path, Min(K) + 5, n - 2) ELSE <<>>

\* s.replace(/\[([^\]]+)\]/g, ':$1')
RECURSIVE ReplaceBrackets(_)
ReplaceBrackets(s) ==
  IF s = <<>> THEN <<>>
  ELSE IF s[1] = "[" /\ IndexOf(s, "]", 2) > 2
  THEN <<":">> \o SubSeq(s, 2, IndexOf(s, "]", 2) - 1)
         \o ReplaceBrackets(SubSeq(s, IndexOf(s, "]", 2) + 1, Len(s)))
  ELSE <<s[1]>> \o ReplaceBrackets(Tail(s))

\* method.toLowerCase()
LowerCase(method) ==
  CASE method = "GET" -> "get" [] method = "POST" -> "post" [] method = "PUT" -> "put"
    [] method = "DELETE" -> "delete" [] method = "PATCH" -> "patch"

NextHasHandler(text, method) ==
  \/ Includes(text, <<"export", SP, "async", SP, "function", SP, method>>)
  \/ Includes(text, <<"export", SP, "function", SP, method>>)
  \/ method = "GET" /\ Includes(text, <<"export", SP, "default">>)

\* tokens of the model that contain the letters "auth"
AuthTokens == {"auth", "authenticate", "authMiddleware", "AuthGuard"}

IsNextHandled(pair) == pair[2]

extractNextJSRoutes(filePath, fileIndex, lines, endpoints) ==
  LET text == Text(lines)
      isApiRoute == \/ Includes(filePath, <<"/", "pages", "/", "api", "/">>)
                    \/ Includes(filePath, <<"/", "app", "/", "api", "/">>)
      apiMatch == ApiMatch(filePath)
      routePath == <<"/", "api", "/">> \o ReplaceBrackets(apiMatch)
      present == SelectSeq([k \in 1..Len(ExpressMethods) |->
                              <<ExpressMethods[k], NextHasHandler(text, ExpressMethods[k])>>],
                           IsNextHandled)
  IN  IF isApiRoute /\ apiMatch # <<>>
      THEN endpoints \o [k \in 1..Len(present) |->
             [method |-> present[k][1], path |-> routePath,
              handler |-> <<LowerCase(present[k][1])>>, file |-> fileIndex.relativePath,
              line |-> 1,
              auth |-> "getServerSession" \in Range(text)
                         \/ HasAuthText(text, AuthTokens)]]
      ELSE endpoints

\* tokens of the model whose text opens a group it does not close: spliced
\* into a pattern unescaped they make `new RegExp` throw
RegexUnsafe == {"x("}

\* new RegExp(`@(?:Primary)?Column[^\n]*\n\s*${name}`, 's') on classContent:
\* in the template literal \n is a newline and \s the letter s, so the name
\* has to follow the newline directly (after any run of letters "s")
TypeOrmDecoratorAt(text, k, name) ==
  LET nl == IndexOf(text, NL, k + 2)
  IN  IF /\ At(text, k) = "@"
         /\ At(text, k + 1) \in {"Column", "PrimaryColumn"}
         /\ nl # 0
         /\ SubSeq(text, nl + 1, nl + Len(name)) = name
      THEN nl ELSE 0

TypeOrmDecorators(text, name) ==
  LET K == {k \in 1..Len(text) : TypeOrmDecoratorAt(text, k, name) # 0}
  IN  IF K = {} \/ name = <<>> THEN <<>>
      ELSE SubSeq(text, Min(K), TypeOrmDecoratorAt(text, Min(K), name)) \o name

\* decorators.match(/@ManyToOne.*?=>\s*(\w+)/)?.[1]
ManyToOneTarget(s) ==
  LET K == {k \in 1..Len(s) : /\ s[k] = "=>"
                              /\ \E a \in 1..(k - 1) : s[a] = "@" /\ s[a + 1] = "ManyToOne"
                              /\ IsWord(At(s, SkipWs(s, k + 1)))}
  IN  IF K = {} THEN Undefined ELSE <<s[SkipWs(s, Min(K) + 1)]>>

\* content.indexOf of a run of tokens, from position from: 0 if absent
IndexOfRun(text, run, from) ==
  LET K == {k \in from..(Len(text) - Len(run) + 1) : SubSeq(text, k, k + Len(run) - 1) = run}
  IN  IF K = {} THEN 0 ELSE Min(K)

\* content.substring(a, b) for 1-based positions a, b (0 where indexOf gave
\* -1): negative arguments count as 0 and the two are swapped if a > b
Substring(text, a, b) ==
  LET x == IF a = 0 THEN 1 ELSE a
      y == IF b = 0 THEN 1 ELSE b
  IN  IF x <= y THEN SubSeq(text, x, y - 1) ELSE SubSeq(text, y, x - 1)

TypeOrmColumn(prop, classContent) ==
  LET parts == MapSeq(Split(prop, ":"), Trim)
      name == parts[1]
      type == IF Len(parts) > 1 THEN parts[2] ELSE <<>>
      decorators == TypeOrmDecorators(classContent, name)
  IN  [name |-> name,
       type |-> IF type # <<>> THEN type ELSE <<"unknown">>,
       nullable |-> Includes(decorators, <<"nullable", ":", SP, "true">>),
       primary |-> \/ Includes(decorators, <<"@", "PrimaryColumn">>)
                   \/ Includes(decorators, <<"primary", ":", SP, "true">>),
       foreign |-> ManyToOneTarget(decorators)]

PropertyName(prop) == Trim(Split(prop, ":")[1])

\* the regular expression of a property cannot be built
TypeOrmThrows(cls) ==
  \E k \in 1..Len(cls.properties) :
     Range(PropertyName(cls.properties[k])) \cap RegexUnsafe # {}

TypeOrmTableOf(cls, fileIndex, text) ==
  LET a == IndexOfRun(text, <<"class", SP, cls.name>>, 1)
      b == IndexOfRun(text, <<NL, "}">>, IF a = 0 THEN 1 ELSE a)
      classContent == Substring(text, a, b)
  IN  IF Len(cls.properties) > 0
      THEN <<[name |-> cls.name, file |-> fileIndex.relativePath, line |-> cls.line,
              columns |-> [k \in 1..Len(cls.properties) |->
                             TypeOrmColumn(cls.properties[k], classContent)]]>>
      ELSE <<>>

\* the classes extractTypeORMSchema gets through: all of them, or those
\* before the first one whose property makes the RegExp constructor throw
TypeOrmReached(classes) ==
  LET T == {k \in 1..Len(classes) : TypeOrmThrows(classes[k])}
  IN  IF T = {} THEN classes ELSE SubSeq(classes, 1, Min(T) - 1)

\* extractTypeORMSchema: the table list, and whether the call threw
extractTypeORMSchema(fileIndex, lines, tables) ==
  LET text == Text(lines)
      reached == TypeOrmReached(fileIndex.classes)
  IN  IF ~Includes(text, <<"@", "Entity">>)
      THEN [tables |-> tables, threw |-> FALSE]
      ELSE [tables |-> tables \o Flatten([k \in 1..Len(reached) |->
                                            TypeOrmTableOf(reached[k], fileIndex, text)]),
            threw |-> Len(reached) < Len(fileIndex.classes)]

\* extractPrismaSchema pushes nothing
extractPrismaSchema(fileIndex, lines, tables) == tables

-----------------------------------------------------------------------------
(* The Django detectors (indexer/generator.ts). *)

\* name.replace(/_/g, '-') for the function names of the model
Dashed(name) ==
  CASE name = "list_widgets" -> "list-widgets"
    [] name = "get_thing" -> "get-thing"
    [] OTHER -> name

\* className.toLowerCase().replace('view', '') for the class names of the model
ViewPathName(name) ==
  CASE name = "WidgetView" -> "widget"
    [] name = "User" -> "user"
    [] OTHER -> name

\* /@api_view\(\[([^\]]+)\]\)\s*def\s+(\w+)/g matched at position k: the
\* position of the function name, 0 without a match
ApiViewAt(text, k) ==
  LET close == IndexOf(text, "]", k + 4)
      d == SkipWs(text, close + 2)
      n == SkipWs(text, d + 1)
  IN  IF /\ At(text, k) = "@"
         /\ At(text, k + 1) = "api_view"
         /\ At(text, k + 2) = "("
         /\ At(text, k + 3) = "["
         /\ close > k + 4
         /\ At(text, close + 1) = ")"
         /\ At(text, d) = "def"
         /\ IsWs(At(text, d + 1))
         /\ IsWord(At(text, n))
      THEN n ELSE 0

\* Array.prototype.find by name: the first such record, None if there is none
FindByName(recs, name) ==
  LET K == {k \in 1..Len(recs) : recs[k].name = name}
  IN  IF K = {} THEN None ELSE recs[Min(K)]

ApiViewEndpointsOf(k, fileIndex, text) ==
  LET n == ApiViewAt(text, k)
      found == QuotedUpper(SubSeq(text, k + 4, IndexOf(text, "]", k + 4) - 1))
      methods == IF found # <<>> THEN found ELSE <<"GET">>
      func == FindByName(fileIndex.functions, text[n])
  IN  IF func = None THEN <<>>
      ELSE [m \in 1..Len(methods) |->
              [method |-> methods[m], path |-> <<"/", "api", "/", Dashed(text[n])>>,
               handler |-> <<text[n]>>, file |-> fileIndex.relativePath,
               line |-> func.line,
               auth |-> \/ Includes(text, <<"@", "permission_classes">>)
                        \/ "IsAuthenticated" \in Range(text)]]

\* /class\s+(\w+)\(.*?View\)/g matched at position k
ViewClassAt(text, k) ==
  LET n == SkipWs(text, k + 1)
      C == {c \in (n + 2)..Len(text) : /\ text[c] = ")"
                                       /\ EndsWith(text[c - 1], "View")
                                       /\ NL \notin Range(SubSeq(text, n + 2, c))}
  IN  /\ At(text, k) = "class"
      /\ IsWs(At(text, k + 1))
      /\ IsWord(At(text, n))
      /\ At(text, n + 1) = "("
      /\ C # {}

ViewVerbs == <<"get", "post", "put", "patch", "delete">>

UpperCase(verb) ==
  CASE verb = "get" -> "GET" [] verb = "post" -> "POST" [] verb = "put" -> "PUT"
    [] verb = "patch" -> "PATCH" [] verb = "delete" -> "DELETE"

ViewEndpointsOf(k, fileIndex, text) ==
  LET className == text[SkipWs(text, k + 1)]
      cls == FindByName(fileIndex.classes, className)
      has == IF cls = None THEN {}
             ELSE {v \in 1..Len(ViewVerbs) :
                     \E m \in 1..Len(cls.methods) : cls.methods[m].name = ViewVerbs[v]}
      V == Sorted(has)
  IN  [v \in 1..Len(V) |->
         [method |-> UpperCase(ViewVerbs[V[v]]),
          path |-> <<"/", "api", "/", ViewPathName(className)>>,
          handler |-> <<className, ".", ViewVerbs[V[v]]>>,
          file |-> fileIndex.relativePath, line |-> cls.line,
          auth |-> \/ "LoginRequiredMixin" \in Range(text)
                   \/ "PermissionRequiredMixin" \in Range(text)]]

extractDjangoRoutes(fileIndex, lines, endpoints) ==
  LET text == Text(lines)
      A == Sorted({k \in 1..Len(text) : ApiViewAt(text, k) # 0})
      C == Sorted({k \in 1..Len(text) : ViewClassAt(text, k)})
  IN  endpoints
        \o Flatten([a \in 1..Len(A) |-> ApiViewEndpointsOf(A[a], fileIndex, text)])
        \o Flatten([c \in 1..Len(C) |-> ViewEndpointsOf(C[c], fileIndex, text)])

\* /(\w+)\s*=\s*models\.(\w+Field)\(([^)]*)\)/g matched at position k: the
\* position of the closing ")" , 0 without a match
ModelFieldAt(text, k) ==
  LET e == SkipWs(text, k + 1)
      m == SkipWs(text, e + 1)
      close == IndexOf(text, ")", m + 4)
  IN  IF /\ IsWord(At(text, k))
         /\ At(text, e) = "="
         /\ At(text, m) = "models"
         /\ At(text, m + 1) = "."
         /\ <<"Field", At(text, m + 2)>> \in ProperSuffix
         /\ At(text, m + 3) = "("
      THEN close ELSE 0

ModelColumn(text, k) ==
  LET m == SkipWs(text, SkipWs(text, k + 1) + 1)
      params == SubSeq(text, m + 4, ModelFieldAt(text, k) - 1)
  IN  [name |-> <<text[k]>>, type |-> <<text[m + 2]>>,
       nullable |-> Includes(params, <<"null", "=", "True">>),
       primary |-> Includes(params, <<"primary_key", "=", "True">>),
       foreign |-> ForeignKeyOf(params)]

DjangoTableOf(cls, fileIndex, text) ==
  LET a == IndexOfRun(text, <<"class", SP, cls.name>>, 1)
      b == IndexOfRun(text, <<NL, "class", SP>>, a + 1)
      classContent == Substring(text, a, b)
      K == Sorted({k \in 1..Len(classContent) : ModelFieldAt(classContent, k) # 0})
  IN  IF K # <<>>
      THEN <<[name |-> cls.name, file |-> fileIndex.relativePath, line |-> cls.line,
              columns |-> [n \in 1..Len(K) |-> ModelColumn(classContent, K[n])]]>>
      ELSE <<>>

extractDjangoModels(fileIndex, lines, tables) ==
  LET text == Text(lines)
  IN  IF ~Includes(text, <<"models", ".", "Model">>) THEN tables
      ELSE tables \o Flatten([k \in 1..Len(fileIndex.classes) |->
                                DjangoTableOf(fileIndex.classes[k], fileIndex, text)])

-----------------------------------------------------------------------------
(* generateIndex, lines 79-96: the detectors run on a parsed file. *)

\* the endpoint and table lists after the detectors, and whether one threw
Detect(f, fileIndex, endpoints, tables) ==
  IF fileIndex.language = "python"
  THEN [endpoints |-> extractDjangoRoutes(fileIndex, f.lines,
                        extractFlaskRoutes(fileIndex, f.lines, endpoints)),
        tables |-> extractDjangoModels(fileIndex, f.lines,
                     extractSQLAlchemySchema(fileIndex, f.lines, tables)),
        threw |-> FALSE]
  ELSE LET e == extractNextJSRoutes(f.path, fileIndex, f.lines,
                  extractNestJSRoutes(fileIndex, f.lines,
                    extractExpressRoutes(fileIndex, f.lines, endpoints)))
           t == extractTypeORMSchema(fileIndex, f.lines, tables)
       IN  [endpoints |-> e,
            tables |-> IF t.threw THEN t.tables
                       ELSE extractPrismaSchema(fileIndex, f.lines, t.tables),
            threw |-> t.threw]

-----------------------------------------------------------------------------
(* Input text of TypeScript and JavaScript files.  A file is a sequence of  *)
(* blocks; a block is some lines of text together with what                 *)
(* ts.createSourceFile makes of them: a comment (no node) or one top-level  *)
(* node, with line offsets relative to the block.                           *)

NoNode ==
  [kind |-> "comment", name |-> "", params |-> <<>>, returnType |-> Undefined,
   async |-> FALSE, exported |-> FALSE, members |-> <<>>, properties |-> <<>>,
   source |-> <<>>, symbols |-> <<>>, off |-> 0, trivia |-> <<>>]

Statement == [NoNode EXCEPT !.kind = "statement"]

\* /** Shared helpers */
BLicense ==
  [lines |-> << <<"/**", SP, "Shared", SP, "helpers", SP, "*/">> >>, node |-> NoNode]

\* /**
\*  * Adds two numbers.
\*  * @param a first
\*  */
BDocAdd ==
  [lines |-> << <<"/**">>,
                <<SP, "*", SP, "Adds", SP, "two", SP, "numbers", ".">>,
                <<SP, "*", SP, "@", "param", SP, "a", SP, "first">>,
                <<SP, "*/">> >>,
   node |-> NoNode]

\* export function add(a, b) {}
BFnAdd ==
  [lines |-> << <<"export", SP, "function", SP, "add", "(", "a", ",", SP, "b", ")",
                  SP, "{", "}">> >>,
   node |-> [NoNode EXCEPT !.kind = "function", !.name = "add",
                           !.params = << <<"a">>, <<"b">> >>, !.exported = TRUE]]

\* const mul = async (a: number): Promise<number> => a;
BArrowMul ==
  [lines |-> << <<"const", SP, "mul", SP, "=", SP, "async", SP, "(", "a", ":", SP,
                  "number", ")", ":", SP, "Promise", "<", "number", ">", SP, "=>",
                  SP, "a", ";">> >>,
   node |-> [NoNode EXCEPT !.kind = "arrow", !.name = "mul",
                           !.params = << <<"a", ":", SP, "number">> >>,
                           !.returnType = <<"Promise", "<", "number", ">">>,
                           !.async = TRUE]]

\* export async function GET(req) {}
BGet ==
  [lines |-> << <<"export", SP, "async", SP, "function", SP, "GET", "(", "req", ")",
                  SP, "{", "}">> >>,
   node |-> [NoNode EXCEPT !.kind = "function", !.name = "GET",
                           !.params = << <<"req">> >>, !.async = TRUE,
                           !.exported = TRUE]]

\* router.get('/users', authenticate, listUsers);
BExpress ==
  [lines |-> << <<"router", ".", "get", "(", "'", "/users", "'", ",", SP,
                  "authenticate", ",", SP, "listUsers", ")", ";">> >>,
   node |-> Statement]

\* app.post("/users", createUser);
BExpressPost ==
  [lines |-> << <<"app", ".", "post", "(", "\"", "/users", "\"", ",", SP,
                  "createUser", ")", ";">> >>,
   node |-> Statement]

\* import express from 'express';
BImportExpress ==
  [lines |-> << <<"import", SP, "express", SP, "from", SP, "'", "express", "'", ";">> >>,
   node |-> [NoNode EXCEPT !.kind = "import", !.source = <<"express">>,
                           !.symbols = << <<"express">> >>]]

\* import { Entity, PrimaryColumn } from 'typeorm';
BImportTypeOrm ==
  [lines |-> << <<"import", SP, "{", SP, "Entity", ",", SP, "PrimaryColumn", SP, "}",
                  SP, "from", SP, "'", "typeorm", "'", ";">> >>,
   node |-> [NoNode EXCEPT !.kind = "import", !.source = <<"typeorm">>,
                           !.symbols = << <<"Entity">>, <<"PrimaryColumn">> >>]]

\* @Entity()
\* export class Account {
\*   @PrimaryColumn()
\*   id: number;
\*   /** Closes the account */
\*   close(): void {}
\* }
BEntity ==
  [lines |-> << <<"@", "Entity", "(", ")">>,
                <<"export", SP, "class", SP, "Account", SP, "{">>,
                <<SP, SP, "@", "PrimaryColumn", "(", ")">>,
                <<SP, SP, "id", ":", SP, "number", ";">>,
                <<SP, SP, "/**", SP, "Closes", SP, "the", SP, "account", SP, "*/">>,
                <<SP, SP, "close", "(", ")", ":", SP, "void", SP, "{", "}">>,
                <<"}">> >>,
   node |-> [NoNode EXCEPT
               !.kind = "class", !.name = "Account", !.exported = TRUE,
               !.members =
                 << [NoNode EXCEPT !.kind = "property", !.name = <<"id">>,
                                   !.returnType = <<"number">>, !.off = 2],
                    [NoNode EXCEPT !.kind = "method", !.name = "close",
                                   !.returnType = <<"void">>, !.off = 5,
                                   !.trivia = <<NL, SP, SP, "/**", SP, "Closes", SP,
                                                "the", SP, "account", SP, "*/", NL,
                                                SP, SP>>] >>]]

\* @Entity()
\* export class Tag {
\*   'x(': string;
\* }
BEntityBad ==
  [lines |-> << <<"@", "Entity", "(", ")">>,
                <<"export", SP, "class", SP, "Tag", SP, "{">>,
                <<SP, SP, "'", "x(", "'", ":", SP, "string", ";">>,
                <<"}">> >>,
   node |-> [NoNode EXCEPT
               !.kind = "class", !.name = "Tag", !.exported = TRUE,
               !.members =
                 << [NoNode EXCEPT !.kind = "property", !.name = <<"'", "x(", "'">>,
                                   !.returnType = <<"string">>, !.off = 2] >>]]

\* @Entity()
\* export class Note {
\* @Column({ nullable: true })
\* body: string;
\* title: string;
\* }
BEntityFlat ==
  [lines |-> << <<"@", "Entity", "(", ")">>,
                <<"export", SP, "class", SP, "Note", SP, "{">>,
                <<"@", "Column", "(", "{", SP, "nullable", ":", SP, "true", SP, "}", ")">>,
                <<"body", ":", SP, "string", ";">>,
                <<"title", ":", SP, "string", ";">>,
                <<"}">> >>,
   node |-> [NoNode EXCEPT
               !.kind = "class", !.name = "Note", !.exported = TRUE,
               !.members =
                 << [NoNode EXCEPT !.kind = "property", !.name = <<"body">>,
                                   !.returnType = <<"string">>, !.off = 2],
                    [NoNode EXCEPT !.kind = "property", !.name = <<"title">>,
                                   !.returnType = <<"string">>, !.off = 4] >>]]

\* interface Opts { verbose: boolean }
BInterface ==
  [lines |-> << <<"interface", SP, "Opts", SP, "{", SP, "verbose", ":", SP, "boolean",
                  SP, "}">> >>,
   node |-> [NoNode EXCEPT !.kind = "interface", !.name = "Opts",
                           !.properties = << <<"verbose", ":", SP, "boolean">> >>]]

IsComment(block) == block.node.kind = "comment"

\* the number of lines of the first k blocks
RECURSIVE LineBase(_, _)
LineBase(blocks, k) ==
  IF k = 0 THEN 0 ELSE LineBase(blocks, k - 1) + Len(blocks[k].lines)

\* the first block of the run of comments that ends just before block k
RECURSIVE TriviaFrom(_, _)
TriviaFrom(blocks, k) ==
  IF k > 1 /\ IsComment(blocks[k - 1]) THEN TriviaFrom(blocks, k - 1) ELSE k

\* the leading trivia of the node of block k: from the end of the previous
\* node (getFullStart) to the node's first token (getStart)
TriviaOf(blocks, k) ==
  LET j == TriviaFrom(blocks, k)
      comments == Flatten([c \in 1..(k - j) |-> blocks[j + c - 1].lines])
  IN  (IF j > 1 THEN <<NL>> ELSE <<>>)
        \o (IF comments = <<>> THEN <<>> ELSE Text(comments) \o <<NL>>)

\* the node of block k, with the line numbers and trivia it has in the file
NodeOf(blocks, k) ==
  LET base == LineBase(blocks, k - 1)
      n == blocks[k].node
  IN  [kind |-> n.kind, name |-> n.name, params |-> n.params,
       returnType |-> n.returnType, async |-> n.async, exported |-> n.exported,
       members |-> [i \in 1..Len(n.members) |->
                      [kind |-> n.members[i].kind, name |-> n.members[i].name,
                       type |-> n.members[i].returnType,
                       params |-> n.members[i].params,
                       returnType |-> n.members[i].returnType,
                       async |-> n.members[i].async,
                       line |-> base + n.members[i].off + 1,
                       trivia |-> n.members[i].trivia]],
       properties |-> n.properties, source |-> n.source, symbols |-> n.symbols,
       line |-> base + n.off + 1,
       trivia |-> TriviaOf(blocks, k)]

\* a source file: its path, its lines, whether readFileSync can read it, and
\* the top-level nodes createSourceFile gives for the text
TsSource(path, blocks) ==
  LET K == Sorted({k \in 1..Len(blocks) : ~IsComment(blocks[k])})
  IN  [path |-> path, readable |-> TRUE,
       lines |-> Flatten([k \in 1..Len(blocks) |-> blocks[k].lines]),
       ast |-> [n \in 1..Len(K) |-> NodeOf(blocks, K[n])]]

PySource(path, lines) == [path |-> path, readable |-> TRUE, lines |-> lines, ast |-> <<>>]

-----------------------------------------------------------------------------
(* The inputs: configurations, paths and file texts. *)

\* utils/config.ts: the defaults of the three include options
DefaultConfig ==
  [includeClasses |-> TRUE, includeInterfaces |-> TRUE, includeImports |-> FALSE]

Configs == [includeClasses : BOOLEAN, includeInterfaces : BOOLEAN, includeImports : BOOLEAN]

ImportConfigs == {[DefaultConfig EXCEPT !.includeImports = b] : b \in BOOLEAN}

SrcPath(name, ext) == WorkspaceRoot \o <<"/", "src", "/", name, ".", ext>>

RubyPath == WorkspaceRoot \o <<"/", "lib", "/", "tool", ".", "rb">>

MakefilePath == WorkspaceRoot \o <<"/", "Makefile">>

SrcPaths == {SrcPath("util", e) : e \in {"ts", "tsx", "js", "jsx"}}
              \cup {RubyPath, MakefilePath}

AppRoutePath ==
  WorkspaceRoot \o <<"/", "app", "/", "api", "/", "users", "/", "[", "id", "]", "/",
                     "route", ".", "ts">>

PagesRoutePath ==
  WorkspaceRoot \o <<"/", "pages", "/", "api", "/", "users", "/", "[", "id", "]", ".",
                     "ts">>

ServerPath == SrcPath("server", "js")

RoutePaths == {AppRoutePath, PagesRoutePath, ServerPath}

EntityPath == SrcPath("account", "ts")

DocBlocks == {BLicense, BDocAdd, BFnAdd, BArrowMul}

RouteBlocks == {BGet, BExpress, BExpressPost, BImportExpress, BFnAdd}

EntityBlocks == {BImportTypeOrm, BEntity, BEntityBad, BEntityFlat, BInterface}

\* the files extraction is run on, each with the configuration in force
FileInputs ==
  {[config |-> DefaultConfig, src |-> PySource(PyPath, ls)] :
     ls \in SeqsUpTo(DocLines, MaxDocLines) \cup SeqsUpTo(ColLines, MaxColLines)
              \cup SeqsUpTo(RouteLines, MaxRouteLines)}
  \cup {[config |-> DefaultConfig, src |-> PySource(PyPath, ls)] :
          ls \in SeqsUpTo(VerbLines, MaxImportLines) \cup SeqsUpTo(SpanLines, MaxColLines)
                   \cup SeqsUpTo(SchemaLines, MaxRouteLines)
                   \cup SeqsUpTo(StringLines, MaxRouteLines)}
  \cup {[config |-> DefaultConfig, src |-> PySource(PyPath, GapLines(n))] :
          n \in 0..MaxGap}
  \cup {[config |-> c, src |-> PySource(PyPath, ls)] :
          c \in ImportConfigs, ls \in SeqsUpTo(ImportLines, MaxImportLines)}
  \cup {[config |-> DefaultConfig, src |-> TsSource(p, bs)] :
          p \in SrcPaths, bs \in SeqsUpTo(DocBlocks, MaxBlocks)}
  \cup {[config |-> c, src |-> TsSource(p, bs)] :
          c \in ImportConfigs, p \in RoutePaths, bs \in SeqsUpTo(RouteBlocks, MaxBlocks)}
  \cup {[config |-> c, src |-> TsSource(EntityPath, bs)] :
          c \in Configs, bs \in SeqsUpTo(EntityBlocks, MaxBlocks)}

-----------------------------------------------------------------------------
(* The extension host (extension.ts, utils/config.ts): the settings, the    *)
(* file watcher with its debounce timer, the output folder, the editor.     *)

\* the section getConfig reads the settings from
ConfigSection == "aiContextIndex"

\* the section under which the README documents the settings
ReadmeSection == "omen"

DefaultDebounceDelay == 3000

MinDebounceDelay == 1000

\* what the user has written into the settings: the section the keys were
\* written under and the values given to them
Settings ==
  [section : {ConfigSection, ReadmeSection}, autoRefresh : BOOLEAN,
   debounceDelay : {500, 5000}, outputFormat : {"markdown", "json", "both"}]

\* nothing set: every key has its default
DefaultSettings ==
  [section |-> ReadmeSection, autoRefresh |-> TRUE,
   debounceDelay |-> DefaultDebounceDelay, outputFormat |-> "markdown"]

\* getConfig: config.get(key, default) on the section 'aiContextIndex'; the
\* include options are in the variable config
getConfig(settings) ==
  IF settings.section = ConfigSection
  THEN [autoRefresh |-> settings.autoRefresh, debounceDelay |-> settings.debounceDelay,
        outputFormat |-> settings.outputFormat]
  ELSE [autoRefresh |-> TRUE, debounceDelay |-> DefaultDebounceDelay,
        outputFormat |-> "markdown"]

\* the file names generateIndex writes and the one openIndexFile looks for
MarkdownName == "omen-index.md"

JsonName == "AI_CONTEXT.json"

IndexPathName == "project-index.md"

\* generateIndex, "Generate outputs": the files written into the output
\* folder (outputPath is not '.', so the folder gets its .gitignore)
OutputsOf(outputFormat) ==
  (IF outputFormat \in {"markdown", "both"} THEN {MarkdownName} ELSE {})
    \cup (IF outputFormat \in {"json", "both"} THEN {JsonName} ELSE {})
    \cup {".gitignore"}

\* activate: the commands registered and the command of the status bar item
RegisteredCommands == {"omen.generateIndex", "omen.refreshIndex", "omen.openIndex"}

StatusBarCommand == "ai-context-index.openIndex"

\* setupFileWatcher: no watcher unless autoRefresh; the handler keeps the
\* configuration read at this point
setupFileWatcher(settings) ==
  LET c == getConfig(settings)
  IN  IF ~c.autoRefresh THEN None ELSE [debounceDelay |-> c.debounceDelay]

\* the extension after activate, with what the output folder holds
Activated(settings, disk) ==
  [settings |-> settings, fileWatcher |-> setupFileWatcher(settings),
   debounceTimer |-> 0, timers |-> {}, nextId |-> 1, disk |-> disk,
   opened |-> "", message |-> "", event |-> "activate", reopen |-> FALSE]

ExtIdle == Activated(DefaultSettings, {})

-----------------------------------------------------------------------------
(* Extraction of one file: parseFile followed by the detectors, as the body *)
(* of generateIndex's loop runs them, on empty accumulators.                *)

NoFile == [path |-> <<>>, readable |-> TRUE, lines |-> <<>>, ast |-> <<>>]

\* projectName and the generated timestamp are left out: no detector reads them
NoIndex ==
  [fileCount |-> 0, functionCount |-> 0, classCount |-> 0, files |-> <<>>,
   techStack |-> <<>>, apiEndpoints |-> <<>>, dbSchema |-> <<>>]

BatchIdle ==
  /\ files = <<>>
  /\ pos = 0
  /\ projectIndex = NoIndex
  /\ detectedTechs = {}
  /\ apiEndpoints = <<>>
  /\ dbTables = <<>>
  /\ errors = <<>>
  /\ written = None
  /\ runs = 0
  /\ extension = ExtIdle

InitFile ==
  /\ \E input \in FileInputs : config = input.config /\ src = input.src
  /\ pc = "parseFile"
  /\ scan = None
  /\ out = None
  /\ BatchIdle

\* a line scanner whose locals outlive the call: only the loop index is reset
DispatchPythonKeepingLocals ==
  /\ pc = "parseFile"
  /\ LanguageOf(ExtName(src.path)) = "python"
  /\ pc' = "parsePythonFile"
  /\ scan' = IF scan # None /\ "i" \in DOMAIN scan THEN [scan EXCEPT !.i = 0]
             ELSE PyStart
  /\ UNCHANGED <<config, src, out, batchVars>>

\* parseFile, ext === '.py'
DispatchPython ==
  /\ pc = "parseFile"
  /\ LanguageOf(ExtName(src.path)) = "python"
  /\ pc' = "parsePythonFile"
  /\ scan' = PyStart
  /\ UNCHANGED <<config, src, out, batchVars>>

\* parseFile, ext === '.ts' || '.tsx', ext === '.js' || '.jsx'
DispatchTypeScript ==
  /\ pc = "parseFile"
  /\ LanguageOf(ExtName(src.path)) \in {"typescript", "javascript"}
  /\ pc' = "parseTypeScriptFile"
  /\ scan' = TsStart(LanguageOf(ExtName(src.path)))
  /\ UNCHANGED <<config, src, out, batchVars>>

\* parseFile, throw new Error(`Unsupported file type: ${ext}`)
DispatchUnsupported ==
  /\ pc = "parseFile"
  /\ LanguageOf(ExtName(src.path)) = "unsupported"
  /\ pc' = "threw"
  /\ UNCHANGED <<config, src, scan, out, batchVars>>

\* parsePythonFile: one iteration of the loop over the lines
PyScanLine ==
  /\ pc = "parsePythonFile"
  /\ scan.i < Len(src.lines)
  /\ scan' = PyStep(scan, src.lines, config.includeImports)
  /\ UNCHANGED <<config, src, pc, out, batchVars>>

\* parsePythonFile: return fileIndex
PyReturn ==
  /\ pc = "parsePythonFile"
  /\ scan.i >= Len(src.lines)
  /\ out' = [file |-> FileIndexOf(src.path, "python", scan),
             endpoints |-> <<>>, tables |-> <<>>]
  /\ pc' = "detect"
  /\ UNCHANGED <<config, src, scan, batchVars>>

\* parseTypeScriptFile: visit of one top-level node
TsVisitNode ==
  /\ pc = "parseTypeScriptFile"
  /\ scan.k < Len(src.ast)
  /\ scan' = TsVisit(scan, src.ast[scan.k + 1], config)
  /\ UNCHANGED <<config, src, pc, out, batchVars>>

\* parseTypeScriptFile: return fileIndex
TsReturn ==
  /\ pc = "parseTypeScriptFile"
  /\ scan.k >= Len(src.ast)
  /\ out' = [file |-> TsFileIndexOf(src.path, scan),
             endpoints |-> <<>>, tables |-> <<>>]
  /\ pc' = "detect"
  /\ UNCHANGED <<config, src, scan, batchVars>>

\* the route and schema detectors on the parsed file
RunDetectors ==
  /\ pc = "detect"
  /\ LET d == Detect(src, out.file, <<>>, <<>>)
     IN  /\ out' = [out EXCEPT !.endpoints = d.endpoints, !.tables = d.tables]
         /\ pc' = IF d.threw THEN "threw" ELSE "done"
  /\ UNCHANGED <<config, src, scan, batchVars>>

NextFile ==
  \/ DispatchPython
  \/ DispatchTypeScript
  \/ DispatchUnsupported
  \/ PyScanLine
  \/ PyReturn
  \/ TsVisitNode
  \/ TsReturn
  \/ RunDetectors

SpecFile == InitFile /\ [][NextFile]_vars

-----------------------------------------------------------------------------
(* generateIndex: the loop over the enumerated files and the assembly of    *)
(* the project model (indexer/generator.ts).                                *)

\* the technologies whose marker the lower-cased token of an import source
\* contains, for the sources of the model
TechOfToken(token) ==
  CASE token = "flask" -> {"Flask"}
    [] token = "express" -> {"Express"}
    [] token = "typeorm" -> {"TypeORM"}
    [] OTHER -> {}

\* the technologies one import adds
TechsOfSource(source) == UNION {TechOfToken(source[t]) : t \in 1..Len(source)}

\* the imports.forEach of generateIndex: detectedTechs after the file
TagTechs(techs, fileIndex) ==
  techs \cup UNION {TechsOfSource(fileIndex.imports[k].source) :
                      k \in 1..Len(fileIndex.imports)}

\* the technologies of the model in the order Array.prototype.sort gives
TechOrder == <<"Express", "Flask", "TypeORM">>

\* a technology list left in the reverse of the sorted order
SortedTechsReversed(techs) ==
  LET K == Sorted({k \in 1..Len(TechOrder) : TechOrder[k] \in techs})
  IN  [n \in 1..Len(K) |-> TechOrder[K[Len(K) + 1 - n]]]

\* Array.from(detectedTechs).sort()
SortedTechs(techs) ==
  LET K == Sorted({k \in 1..Len(TechOrder) : TechOrder[k] \in techs})
  IN  [n \in 1..Len(K) |-> TechOrder[K[n]]]

\* the files scanWorkspace can enumerate: supported extensions only
ViewsPath == WorkspaceRoot \o <<"/", "app", "/", "views", ".", "py">>

FModels == PySource(PyPath, <<LClassUser, LColId, LColEmail>>)

FViews == PySource(ViewsPath, <<LFromFlask, LRouteWidgets, LDefListWidgets>>)

FRoute == TsSource(AppRoutePath, <<BGet>>)

FServer == TsSource(ServerPath, <<BImportExpress, BExpress, BFnAdd>>)

FAccount == TsSource(EntityPath, <<BImportTypeOrm, BEntity>>)

FTag == TsSource(SrcPath("tag", "ts"), <<BImportTypeOrm, BExpress, BEntityBad>>)

FGone == [TsSource(SrcPath("gone", "ts"), <<BFnAdd>>) EXCEPT !.readable = FALSE]

Workspace == {FModels, FViews, FRoute, FServer, FAccount, FTag, FGone}

\* scanWorkspace returns the elements of a Set of paths: no path twice
Batches ==
  {b \in SeqsUpTo(Workspace, MaxBatch) :
     \A i, j \in 1..Len(b) : b[i].path = b[j].path => i = j}

Init ==
  /\ config \in ImportConfigs
  /\ files \in Batches
  /\ pc = "loop"
  /\ pos = 0
  /\ projectIndex = NoIndex
  /\ detectedTechs = {}
  /\ apiEndpoints = <<>>
  /\ dbTables = <<>>
  /\ errors = <<>>
  /\ written = None
  /\ runs = 1
  /\ extension = ExtIdle
  /\ src = NoFile
  /\ scan = None
  /\ out = None

\* a catch that would rethrow: the loop ends at the file that cannot be read
ReadFileRethrow ==
  /\ pc = "loop"
  /\ pos < Len(files)
  /\ IF files[pos + 1].readable
     THEN /\ src' = files[pos + 1]
          /\ pc' = "parseFile"
          /\ UNCHANGED <<pos, errors>>
     ELSE /\ errors' = Append(errors, files[pos + 1].path)
          /\ pos' = Len(files)
          /\ UNCHANGED <<src, pc>>
  /\ UNCHANGED <<config, scan, out, files, projectIndex, detectedTechs, apiEndpoints,
                 dbTables, written, runs, extension>>

\* the loop takes the next file: readFileContent(file), which throws into
\* the catch if the file cannot be read, and the call of parseFile
ReadFile ==
  /\ pc = "loop"
  /\ pos < Len(files)
  /\ IF files[pos + 1].readable
     THEN /\ src' = files[pos + 1]
          /\ pc' = "parseFile"
          /\ UNCHANGED <<pos, errors>>
     ELSE /\ errors' = Append(errors, files[pos + 1].path)
          /\ pos' = pos + 1
          /\ UNCHANGED <<src, pc>>
  /\ UNCHANGED <<config, scan, out, files, projectIndex, detectedTechs, apiEndpoints,
                 dbTables, written, runs, extension>>

\* a loop body that puts the record of the file in front of the earlier ones
IndexFilePrepending ==
  /\ pc = "detect"
  /\ LET d == Detect(src, out.file, apiEndpoints, dbTables)
     IN  /\ apiEndpoints' = d.endpoints
         /\ dbTables' = d.tables
         /\ errors' = IF d.threw THEN Append(errors, src.path) ELSE errors
  /\ projectIndex' = [projectIndex EXCEPT
                        !.files = <<out.file>> \o @,
                        !.fileCount = @ + 1,
                        !.functionCount = @ + Len(out.file.functions),
                        !.classCount = @ + Len(out.file.classes)]
  /\ detectedTechs' = TagTechs(detectedTechs, out.file)
  /\ pos' = pos + 1
  /\ pc' = "loop"
  /\ UNCHANGED <<config, fileVars, files, written, runs, extension>>

\* a loop body that counts the methods of the classes as functions
IndexFileCountingMethods ==
  /\ pc = "detect"
  /\ LET d == Detect(src, out.file, apiEndpoints, dbTables)
     IN  /\ apiEndpoints' = d.endpoints
         /\ dbTables' = d.tables
         /\ errors' = IF d.threw THEN Append(errors, src.path) ELSE errors
  /\ projectIndex' = [projectIndex EXCEPT
                        !.files = Append(@, out.file),
                        !.fileCount = @ + 1,
                        !.functionCount = @ + Len(out.file.functions)
                          + Len(Flatten([k \in 1..Len(out.file.classes) |->
                                           out.file.classes[k].methods])),
                        !.classCount = @ + Len(out.file.classes)]
  /\ detectedTechs' = TagTechs(detectedTechs, out.file)
  /\ pos' = pos + 1
  /\ pc' = "loop"
  /\ UNCHANGED <<config, fileVars, files, written, runs, extension>>

\* the rest of the try block once parseFile has returned: the file is
\* pushed and counted, its imports are tagged, the detectors run; a throw
\* of a detector is caught and logged
IndexFile ==
  /\ pc = "detect"
  /\ LET d == Detect(src, out.file, apiEndpoints, dbTables)
     IN  /\ apiEndpoints' = d.endpoints
         /\ dbTables' = d.tables
         /\ errors' = IF d.threw THEN Append(errors, src.path) ELSE errors
  /\ projectIndex' = [projectIndex EXCEPT
                        !.files = Append(@, out.file),
                        !.fileCount = @ + 1,
                        !.functionCount = @ + Len(out.file.functions),
                        !.classCount = @ + Len(out.file.classes)]
  /\ detectedTechs' = TagTechs(detectedTechs, out.file)
  /\ pos' = pos + 1
  /\ pc' = "loop"
  /\ UNCHANGED <<config, fileVars, files, written, runs, extension>>

\* after the loop: the project model is completed and the output files of
\* the configured format are written into the output folder
Finish ==
  /\ pc = "loop"
  /\ pos = Len(files)
  /\ projectIndex' = [projectIndex EXCEPT !.techStack = SortedTechs(detectedTechs),
                                          !.apiEndpoints = apiEndpoints,
                                          !.dbSchema = dbTables]
  /\ written' = projectIndex'
  /\ extension' = [extension EXCEPT
                   !.disk = @ \cup OutputsOf(getConfig(extension.settings).outputFormat)]
  /\ pc' = "finished"
  /\ UNCHANGED <<config, fileVars, files, pos, detectedTechs, apiEndpoints, dbTables,
                 errors, runs>>

\* generateIndex is called again on the unchanged workspace
Regenerate ==
  /\ pc = "finished"
  /\ runs < MaxRuns
  /\ runs' = runs + 1
  /\ pc' = "loop"
  /\ pos' = 0
  /\ projectIndex' = NoIndex
  /\ detectedTechs' = {}
  /\ apiEndpoints' = <<>>
  /\ dbTables' = <<>>
  /\ errors' = <<>>
  /\ UNCHANGED <<config, fileVars, files, written, extension>>

Next ==
  \/ ReadFile
  \/ DispatchPython
  \/ DispatchTypeScript
  \/ PyScanLine
  \/ PyReturn
  \/ TsVisitNode
  \/ TsReturn
  \/ IndexFile
  \/ Finish
  \/ Regenerate

Spec == Init /\ [][Next]_vars

-----------------------------------------------------------------------------
(* The extension at work (extension.ts): the commands, the status bar item, *)
(* the file watcher and its debounce timer, around runs of generateIndex.   *)
(* Handlers run one at a time: a command, a file event or a timer is served *)
(* when no run of generateIndex is under way.                               *)

\* the workspace of the extension: one Python file and one TypeScript file
ExtFiles == <<FViews, FRoute>>

InitExt ==
  /\ config = DefaultConfig
  /\ files = ExtFiles
  /\ pc = "idle"
  /\ pos = 0
  /\ projectIndex = NoIndex
  /\ detectedTechs = {}
  /\ apiEndpoints = <<>>
  /\ dbTables = <<>>
  /\ errors = <<>>
  /\ written = None
  /\ runs = 0
  /\ src = NoFile
  /\ scan = None
  /\ out = None
  /\ \E settings \in Settings, disk \in {{}, {IndexPathName}} :
        extension = Activated(settings, disk)

Idle == pc \in {"idle", "finished"}

\* handleGenerateIndex: generateIndex starts on the workspace
StartRun ==
  /\ runs < MaxRuns
  /\ runs' = runs + 1
  /\ pc' = "loop"
  /\ pos' = 0
  /\ projectIndex' = NoIndex
  /\ detectedTechs' = {}
  /\ apiEndpoints' = <<>>
  /\ dbTables' = <<>>
  /\ errors' = <<>>
  /\ UNCHANGED <<config, fileVars, files, written>>

\* the extension state changes and no run starts
OnlyExtension ==
  UNCHANGED <<config, src, pc, scan, out, files, pos, projectIndex, detectedTechs,
              apiEndpoints, dbTables, errors, written, runs>>

\* the commands omen.generateIndex and omen.refreshIndex
GenerateCommand ==
  /\ Idle
  /\ StartRun
  /\ extension' = [extension EXCEPT !.event = "generate"]

\* openIndexFile; choice is the user's answer to "Generate it now?"
openIndexFile(choice) ==
  IF IndexPathName \in extension.disk
  THEN /\ extension' = [extension EXCEPT !.opened = IndexPathName, !.message = "",
                                         !.event = "open"]
       /\ OnlyExtension
  ELSE IF choice = "Generate" /\ runs < MaxRuns
  THEN /\ StartRun
       /\ extension' = [extension EXCEPT !.message = "notFound", !.reopen = TRUE,
                                         !.event = "openGenerate"]
  ELSE /\ extension' = [extension EXCEPT !.message = "notFound", !.event = "open"]
       /\ OnlyExtension

\* the command omen.openIndex, from the command palette
OpenCommand ==
  /\ Idle
  /\ \E choice \in {"Generate", "Cancel"} : openIndexFile(choice)

\* a click on the status bar item runs the command the item names
ClickStatusBar ==
  /\ Idle
  /\ IF StatusBarCommand \in RegisteredCommands
     THEN \E choice \in {"Generate", "Cancel"} : openIndexFile(choice)
     ELSE /\ extension' = [extension EXCEPT !.message = "commandNotFound",
                                            !.event = "click"]
          /\ OnlyExtension

\* openIndexFile after the generation it asked for: "Try to open again"
ReopenAfterGenerate ==
  /\ pc = "finished"
  /\ extension.reopen
  /\ extension' = [extension EXCEPT
                     !.reopen = FALSE,
                     !.opened = IF IndexPathName \in extension.disk
                                THEN IndexPathName ELSE @,
                     !.event = "reopen"]
  /\ OnlyExtension

\* handleFileChange, registered for onDidChange, onDidCreate and onDidDelete
FileEvent ==
  /\ Idle
  /\ extension.fileWatcher # None
  /\ extension.nextId <= MaxEvents
  /\ extension' =
       [extension EXCEPT
          !.timers = {t \in @ : t.id # extension.debounceTimer}
                       \cup {[id |-> extension.nextId,
                              delay |-> Max({extension.fileWatcher.debounceDelay,
                                             MinDebounceDelay})]},
          !.debounceTimer = extension.nextId,
          !.nextId = @ + 1,
          !.event = "change"]
  /\ OnlyExtension

\* a pending timer fires: handleGenerateIndex(true)
TimerFire ==
  /\ Idle
  /\ \E t \in extension.timers :
        extension' = [extension EXCEPT !.timers = @ \ {t}, !.event = "timer"]
  /\ StartRun

NextExt ==
  \/ GenerateCommand
  \/ OpenCommand
  \/ ClickStatusBar
  \/ ReopenAfterGenerate
  \/ FileEvent
  \/ TimerFire
  \/ ReadFile
  \/ DispatchPython
  \/ DispatchTypeScript
  \/ PyScanLine
  \/ PyReturn
  \/ TsVisitNode
  \/ TsReturn
  \/ IndexFile
  \/ Finish

SpecExt == InitExt /\ [][NextExt]_vars

-----------------------------------------------------------------------------
(* Properties of generateIndex's error handling. *)

\* C1: whenever processing a file raises an error that the per-file catch of
\* generateIndex logs, the file is absent from the output: the step that
\* logs it adds nothing to the file list, the counts, the endpoint list, the
\* table list or the technology set.
C1_FailedFileAbsent ==
  [][Len(errors') > Len(errors) =>
       /\ projectIndex' = projectIndex
       /\ apiEndpoints' = apiEndpoints
       /\ dbTables' = dbTables
       /\ detectedTechs' = detectedTechs]_vars

\* a file whose failure was logged is in the project model's file list
C1_LoggedFileListed ==
  \E e \in 1..Len(errors), k \in 1..Len(projectIndex.files) :
     /\ projectIndex.files[k].path = errors[e]
     /\ projectIndex.fileCount = Len(projectIndex.files)

\* what one file yields when extraction runs on it alone
Alone(f, cfg) ==
  LET fileIndex == parseFile(f, cfg).file
      d == Detect(f, fileIndex, <<>>, <<>>)
  IN  [file |-> fileIndex, endpoints |-> d.endpoints, tables |-> d.tables,
       techs |-> TagTechs({}, fileIndex)]

IsListed(f) ==
  \E k \in 1..Len(projectIndex.files) : projectIndex.files[k].path = f.path

\* C2: generateIndex never aborts on a failing file: when it returns every
\* file of the batch has been taken and every file that could be read is in
\* the file list, whatever failed before it; and a file processed without
\* error adds exactly the records and counts it yields alone.
C2_FailureIsolated ==
  /\ [](pc = "finished" =>
          /\ pos = Len(files)
          /\ \A i \in 1..Len(files) : files[i].readable => IsListed(files[i]))
  /\ [][pc = "detect" /\ Len(errors') = Len(errors) =>
          LET alone == Alone(src, config)
          IN  /\ projectIndex'.files = Append(projectIndex.files, alone.file)
              /\ projectIndex'.fileCount = projectIndex.fileCount + 1
              /\ projectIndex'.functionCount =
                   projectIndex.functionCount + Len(alone.file.functions)
              /\ projectIndex'.classCount =
                   projectIndex.classCount + Len(alone.file.classes)
              /\ apiEndpoints' = apiEndpoints \o alone.endpoints
              /\ dbTables' = dbTables \o alone.tables
              /\ detectedTechs' = detectedTechs \cup alone.techs]_vars

\* a run has returned in which a file failed and a later file is listed with
\* its endpoints
C2_LaterFileIndexed ==
  /\ pc = "finished"
  /\ \E i, j \in 1..Len(files) :
        /\ i < j
        /\ files[i].path \in Range(errors)
        /\ IsListed(files[j])
        /\ \E k \in 1..Len(apiEndpoints) :
              apiEndpoints[k].file = RelativePath(files[j].path)

-----------------------------------------------------------------------------
(* Properties of the extraction of one file. *)

\* the path ends in a file name with extension e
HasExt(path, e) ==
  /\ Len(path) >= 3
  /\ path[Len(path)] = e
  /\ path[Len(path) - 1] = "."
  /\ path[Len(path) - 2] # "/"

\* C3: parseFile dispatches on the extension: .ts and .tsx go to the
\* syntax-tree extractor with language typescript, .js and .jsx to the same
\* extractor with language javascript, .py to the line scanner with language
\* python; any other extension raises an error and no file record results.
C3_Dispatch ==
  /\ [][pc = "parseFile" =>
          IF HasExt(src.path, "ts") \/ HasExt(src.path, "tsx")
            THEN pc' = "parseTypeScriptFile" /\ scan'.language = "typescript"
          ELSE IF HasExt(src.path, "js") \/ HasExt(src.path, "jsx")
            THEN pc' = "parseTypeScriptFile" /\ scan'.language = "javascript"
          ELSE IF HasExt(src.path, "py")
            THEN pc' = "parsePythonFile"
          ELSE pc' = "threw" /\ out' = None]_vars
  /\ [](pc \in {"detect", "done"} =>
          out.file.language =
            IF HasExt(src.path, "ts") \/ HasExt(src.path, "tsx") THEN "typescript"
            ELSE IF HasExt(src.path, "py") THEN "python"
            ELSE "javascript")

\* parseFile threw on a Ruby file and left no file record
C3_UnsupportedThrew ==
  /\ pc = "threw"
  /\ HasExt(src.path, "rb")
  /\ out = None


IsPythonResult == pc \in {"detect", "done"} /\ out.file.language = "python"

TripleQuotes == {TQ, TSQ}

\* the line is a docstring that opens and closes on it, in one quote style
IsOneLineDoc(line) ==
  LET t == Trim(line)
  IN  /\ Len(t) >= 2
      /\ t[1] \in TripleQuotes
      /\ t[Len(t)] = t[1]
      /\ \A k \in 2..(Len(t) - 1) : t[k] \notin TripleQuotes

OneLineDocText(line) == Trim(SubSeq(Trim(line), 2, Len(Trim(line)) - 1))

\* class record number k is of a class statement whose body begins, on the
\* next line, with a one-line docstring
HasOneLineDoc(k) ==
  LET n == out.file.classes[k].line
  IN  /\ n < Len(src.lines)
      /\ IsOneLineDoc(src.lines[n + 1])
      /\ Indent(src.lines[n + 1]) > Indent(src.lines[n])
      /\ \A j \in 1..n : ~HasTripleQuote(src.lines[j])

\* C4: line scanner: a class whose docstring is a one-line triple-quoted
\* string (either quote style) gets as description the text between the
\* quotes, trimmed.
C4_ClassDocstring ==
  IsPythonResult =>
    \A k \in 1..Len(out.file.classes) :
       HasOneLineDoc(k) =>
         out.file.classes[k].description = OneLineDocText(src.lines[out.file.classes[k].line + 1])

\* a class with a one-line docstring has come out without a description
C4_DocstringDropped ==
  /\ IsPythonResult
  /\ \E k \in 1..Len(out.file.classes) :
        HasOneLineDoc(k) /\ out.file.classes[k].description = Undefined

IsTsResult == pc \in {"done", "threw"} /\ out # None

\* the text of src exports a GET handler function and nothing else that a
\* route detector picks up
ExportsOnlyGet ==
  LET text == Text(src.lines)
  IN  /\ Includes(text, <<"export", SP, "async", SP, "function", SP, "GET">>)
      /\ ~Includes(text, <<"export", SP, "default">>)
      /\ "router" \notin Range(text)

\* C5: path-convention rule: a file under an API-routes directory with a
\* bracketed segment (as .../app/api/users/[id]/route.ts) that exports a GET
\* handler function and no other handler yields exactly one endpoint, with
\* path /api/users/:id, method GET and line 1.
C5_RouteFilePath ==
  (IsTsResult /\ src.path \in {AppRoutePath, PagesRoutePath} /\ ExportsOnlyGet) =>
    /\ Len(out.endpoints) = 1
    /\ out.endpoints[1].path = <<"/", "api", "/", "users", "/", ":", "id">>
    /\ out.endpoints[1].method = "GET"
    /\ out.endpoints[1].line = 1

\* the route file of the app directory has yielded its endpoint with the
\* file's base name left in the path
C5_RouteSuffixKept ==
  /\ IsTsResult
  /\ src.path = AppRoutePath
  /\ ExportsOnlyGet
  /\ Len(out.endpoints) = 1
  /\ out.endpoints[1].path = <<"/", "api", "/", "users", "/", ":", "id", "/", "route">>
  /\ out.endpoints[1].method = "GET"


\* the lines of src that define column `name`: name = Column( or
\* name = db.Column( , the name standing first on the line
OwnColumnLines(name) ==
  {i \in 1..Len(src.lines) :
     LET t == Trim(src.lines[i])
         c == IF At(t, 5) = "db" /\ At(t, 6) = "." THEN 7 ELSE 5
     IN  /\ SubSeq(t, 1, 4) = <<name, SP, "=", SP>>
         /\ At(t, c) = "Column"
         /\ At(t, c + 1) = "("}

\* the text of the call that starts on line i, from Column to the bracket
\* that closes it; <<>> if the call is not closed
OwnColumnCall(i) ==
  LET tail == Text(SubSeq(src.lines, i, Len(src.lines)))
      p == IndexOf(tail, "Column", 1)
      C == {c \in (p + 1)..Len(tail) :
              Count(SubSeq(tail, p, c), "(") = Count(SubSeq(tail, p, c), ")")}
  IN  IF C = {} THEN <<>> ELSE SubSeq(tail, p, Min(C))

\* the reference string of the ForeignKey(...) in a call, Undefined if none
ForeignKeyIn(call) ==
  LET K == {k \in 1..Len(call) : /\ call[k] = "ForeignKey"
                                 /\ At(call, k + 1) = "("
                                 /\ At(call, SkipWs(call, k + 2)) \in QuoteChars}
  IN  IF K = {} THEN Undefined ELSE <<At(call, SkipWs(call, Min(K) + 2) + 1)>>

\* column c of the output has one defining call in src, and it is closed
HasOwnCall(c) ==
  /\ Len(c.name) = 1
  /\ Cardinality(OwnColumnLines(c.name[1])) = 1
  /\ OwnColumnCall(CHOOSE i \in OwnColumnLines(c.name[1]) : TRUE) # <<>>

CallOf(c) == OwnColumnCall(CHOOSE i \in OwnColumnLines(c.name[1]) : TRUE)

\* C6: declarative-column rule: each column record is classified from the
\* text of that column's own name = Column(...) call: nullable exactly when
\* the call has no nullable=False, primary exactly when it has
\* primary_key=True, foreign the ForeignKey reference of the call if it has
\* one and absent otherwise.
C6_ColumnFromOwnCall ==
  (IsPythonResult /\ pc = "done") =>
    \A t \in 1..Len(out.tables) : \A j \in 1..Len(out.tables[t].columns) :
       LET c == out.tables[t].columns[j]
       IN  HasOwnCall(c) =>
             /\ c.nullable = ~Includes(CallOf(c), <<"nullable", "=", "False">>)
             /\ c.primary = Includes(CallOf(c), <<"primary_key", "=", "True">>)
             /\ c.foreign = ForeignKeyIn(CallOf(c))

\* the column email = Column(String(120), nullable=False) has come out
\* nullable
C6_NotNullLost ==
  /\ IsPythonResult
  /\ pc = "done"
  /\ \E t \in 1..Len(out.tables) : \E j \in 1..Len(out.tables[t].columns) :
        LET c == out.tables[t].columns[j]
        IN  /\ c.name = <<"email">>
            /\ HasOwnCall(c)
            /\ Includes(CallOf(c), <<"nullable", "=", "False">>)
            /\ c.nullable


\* the line is a decorator @x.route('P' ...)
IsRouteDecorator(line) ==
  /\ At(line, 1) = "@"
  /\ At(line, 3) = "."
  /\ At(line, 4) = "route"
  /\ At(line, 5) = "("
  /\ At(line, 6) \in QuoteChars
  /\ At(line, 8) \in QuoteChars

IsUpperWord(t) == t \in UpperWords

\* the method names of the decorator's methods list, GET if it has no list
DecoratorMethods(line) ==
  IF "methods" \in Range(line) THEN SelectSeq(line, IsUpperWord) ELSE <<"GET">>

\* function record f has a route decorator on the line above its def line
IsRouted(f) ==
  /\ f.line >= 2
  /\ f.line <= Len(src.lines)
  /\ IsRouteDecorator(src.lines[f.line - 1])
  /\ \A j \in 1..f.line : ~HasTripleQuote(src.lines[j])

\* the endpoints of the output that are of function f
EndpointsOf(f) ==
  LET Mine(e) == e.handler = <<f.name>> /\ e.line = f.line
  IN  SelectSeq(out.endpoints, Mine)

\* C7: decorator-scan rule: a top-level function with a route decorator
\* naming path P directly above it yields exactly one endpoint per method of
\* the decorator's methods list, in list order, each with path P, the
\* function as handler and the function's line; without a methods list it
\* yields exactly one GET endpoint.
C7_EndpointsPerMethod ==
  (IsPythonResult /\ pc = "done") =>
    \A k \in 1..Len(out.file.functions) :
       LET f == out.file.functions[k]
           methods == DecoratorMethods(src.lines[f.line - 1])
       IN  IsRouted(f) =>
             /\ Len(EndpointsOf(f)) = Len(methods)
             /\ \A m \in 1..Len(methods) :
                   /\ EndpointsOf(f)[m].method = methods[m]
                   /\ EndpointsOf(f)[m].path = <<src.lines[f.line - 1][7]>>

\* a function under a route decorator without a methods list has come out
\* with a POST endpoint
C7_MethodsLeaked ==
  /\ IsPythonResult
  /\ pc = "done"
  /\ \E k \in 1..Len(out.file.functions) :
        LET f == out.file.functions[k]
        IN  /\ IsRouted(f)
            /\ "methods" \notin Range(src.lines[f.line - 1])
            /\ \E m \in 1..Len(EndpointsOf(f)) : EndpointsOf(f)[m].method = "POST"


TripleQuoteCount(line) == Count(line, TQ) + Count(line, TSQ)

\* the first line of src that holds a triple quote, 0 if none does
DocOpenLine ==
  LET K == {i \in 1..Len(src.lines) : HasTripleQuote(src.lines[i])}
  IN  IF K = {} THEN 0 ELSE Min(K)

\* the quote style of the docstring that opens on line o
DocQuote(o) == IF TQ \in Range(src.lines[o]) THEN TQ ELSE TSQ

\* the line on which the docstring opened on line o closes: the first later
\* line holding its quote style; 0 if there is none
DocCloseLine(o) ==
  LET K == {j \in (o + 1)..Len(src.lines) : DocQuote(o) \in Range(src.lines[j])}
  IN  IF K = {} THEN 0 ELSE Min(K)

\* src begins a docstring on line o that runs over several lines to line c
IsMultiLineDoc(o, c) ==
  /\ o # 0
  /\ c # 0
  /\ c = DocCloseLine(o)
  /\ TripleQuoteCount(src.lines[o]) = 1
  /\ TripleQuoteCount(src.lines[c]) = 1

NonEmpty(s) == s # <<>>

\* the lines of the docstring o..c, each trimmed: what follows the opening
\* quotes and what precedes the closing quotes count if they hold text
DocTextLines(o, c) ==
  LET q == DocQuote(o)
      first == Trim(SubSeq(src.lines[o], IndexOf(src.lines[o], q, 1) + 1,
                           Len(src.lines[o])))
      last == Trim(SubSeq(src.lines[c], 1, IndexOf(src.lines[c], q, 1) - 1))
  IN  SelectSeq(<<first>>, NonEmpty)
        \o [k \in 1..(c - o - 1) |-> Trim(src.lines[o + k])]
        \o SelectSeq(<<last>>, NonEmpty)

\* C8: line scanner: once a triple-quoted docstring opened on one line has
\* been closed on a later line, the pending description is the docstring's
\* inner lines (blank ones included), each trimmed, joined by single spaces
\* in their order.
C8_MultiLineDocstring ==
  (pc = "parsePythonFile" /\ IsMultiLineDoc(DocOpenLine, scan.i)) =>
    /\ ~scan.inDocstring
    /\ scan.pendingDocstring = Trim(Join(DocTextLines(DocOpenLine, scan.i), <<SP>>))

\* the scanner is past the closing line of a docstring that has the other
\* quote style on an inner line, and holds less than the inner line
C8_DocstringCutShort ==
  /\ pc = "parsePythonFile"
  /\ src.lines = <<LDocBare, LDocInnerQuote, LDocBare>>
  /\ scan.i = 3
  /\ IsMultiLineDoc(DocOpenLine, scan.i)
  /\ scan.pendingDocstring = <<"uses">>
  /\ scan.inDocstring


IsSyntaxTreeResult ==
  pc \in {"detect", "done", "threw"} /\ out # None /\ out.file.language # "python"

IsFunctionNode(node) == node.kind \in {"function", "arrow"}

\* a line of a comment body without its leading asterisk
DocLineText(line) ==
  LET t == Trim(line)
  IN  IF At(t, 1) = "*" THEN Trim(Tail(t)) ELSE t

IsDocText(line) == line # <<>> /\ line[1] # "@"

\* the description the documentation comment nearest to the node gives:
\* the last /** ... */ of the node's leading text
NearestDoc(trivia) ==
  LET A == {a \in 1..Len(trivia) : trivia[a] = "/**"}
      b == IndexOf(trivia, "*/", Max(A) + 1)
  IN  IF A = {} \/ b = 0 THEN Undefined
      ELSE Join(SelectSeq(MapSeq(Split(SubSeq(trivia, Max(A) + 1, b - 1), NL),
                                 DocLineText),
                          IsDocText),
                <<SP>>)

\* C9: syntax-tree extractor: the description of a function is the body of
\* the /** ... */ comment that immediately precedes it (the nearest one if
\* its leading text holds several), the leading asterisk of each line
\* stripped, lines that begin with an @ tag dropped, the rest joined by
\* single spaces; without such a comment the description is absent.
C9_NearestDocComment ==
  IsSyntaxTreeResult =>
    \A k \in 1..Len(out.file.functions) :
       out.file.functions[k].description =
         NearestDoc(SelectSeq(src.ast, IsFunctionNode)[k].trivia)

\* a function preceded by a file header comment and its own documentation
\* comment has come out with the header as description
C9_HeaderTaken ==
  /\ IsSyntaxTreeResult
  /\ src = TsSource(SrcPath("util", "ts"), <<BLicense, BDocAdd, BFnAdd>>)
  /\ out.file.functions[1].name = "add"
  /\ out.file.functions[1].description = <<"Shared", SP, "helpers">>

-----------------------------------------------------------------------------
(* Extraction keeps no state between files or between runs. *)

\* C10: idempotence: extraction (parseFile, then the route and schema
\* detectors) of the same path and unchanged text yields the same records
\* in the same order: a second run over the unchanged workspace writes the
\* output of the first, the record of a file is what parseFile gives for it
\* alone, and the detectors add what they add to empty lists, whatever
\* earlier files have left behind.
C10_Idempotent ==
  /\ [][(pc = "loop" /\ pc' = "finished" /\ written # None) => written' = written]_vars
  /\ [](pc = "detect" => out.file = parseFile(src, config).file)
  /\ [][(pc = "detect" /\ pc' = "loop") =>
          /\ apiEndpoints' = apiEndpoints \o Detect(src, out.file, <<>>, <<>>).endpoints
          /\ dbTables' = dbTables \o Detect(src, out.file, <<>>, <<>>).tables]_vars

\* a second run over two files has written the output of the first run
C10_SecondRunSame ==
  /\ pc = "finished"
  /\ runs = 2
  /\ written = projectIndex
  /\ Len(projectIndex.files) = 2
  /\ Len(projectIndex.apiEndpoints) >= 1
  /\ Len(projectIndex.dbSchema) >= 1


-----------------------------------------------------------------------------
(* Properties of the endpoint and table records. *)

\* the HTTP methods an Endpoint record may carry
HttpMethods == {"GET", "POST", "PUT", "PATCH", "DELETE"}

\* C11: every Endpoint record the route rules produce for a file has a
\* method that is one of GET, POST, PUT, PATCH, DELETE.
C11_EndpointMethod ==
  pc = "done" =>
    \A k \in 1..Len(out.endpoints) : out.endpoints[k].method \in HttpMethods

\* the detectors have produced an endpoint for a route declared for HEAD or
\* OPTIONS, with that verb as its method
C11_OtherVerbKept ==
  /\ pc = "done"
  /\ \E k \in 1..Len(out.endpoints) : out.endpoints[k].method \in {"HEAD", "OPTIONS"}


\* a top-level class header: the line begins with "class "
IsClassHeader(line) == At(line, 1) = "class" /\ At(line, 2) = SP

\* the last line of the slice that runs from the header of the class on
\* line n to the next top-level class header, or to the end of the file
SliceEnd(lines, n) ==
  LET H == {h \in (n + 1)..Len(lines) : IsClassHeader(lines[h])}
  IN  IF H = {} THEN Len(lines) ELSE Min(H) - 1

\* the declarative-column rule matches a class: the file holds a declarative
\* marker and the class record has a non-empty property list
DeclarativeMatches(lines, cls) ==
  /\ Includes(Text(lines), <<"db", ".", "Model">>) \/ "Base" \in Range(Text(lines))
  /\ Len(cls.properties) > 0

\* the model-field rule matches a class: the file holds the model marker and
\* the slice of the class holds a `name = models.XField(args)` occurrence
ModelFieldMatches(lines, cls) ==
  /\ Includes(Text(lines), <<"models", ".", "Model">>)
  /\ \E n \in cls.line..SliceEnd(lines, cls.line) :
        \E k \in 1..Len(lines[n]) : ModelFieldAt(lines[n], k) # 0

TablesOfClass(cls) ==
  {t \in 1..Len(out.tables) : out.tables[t].name = cls.name /\ out.tables[t].line = cls.line}

\* C12: the schema rules never deduplicate: a class of a Python file that
\* both the declarative-column rule and the model-field rule match has two
\* Table records, and the number of Table records is the number of classes
\* the first rule matches plus the number the second matches.
C12_NoDeduplication ==
  pc = "done" /\ out.file.language = "python" =>
    LET classes == out.file.classes
        D == {k \in 1..Len(classes) : DeclarativeMatches(src.lines, classes[k])}
        M == {k \in 1..Len(classes) : ModelFieldMatches(src.lines, classes[k])}
    IN  /\ \A k \in D \cap M : Cardinality(TablesOfClass(classes[k])) = 2
        /\ Len(out.tables) = Cardinality(D) + Cardinality(M)

\* the last class of a file has a column and a model field, the markers of
\* both rules are in the file, and the class has one Table record only
C12_LastClassOnce ==
  /\ pc = "done"
  /\ src.lines = <<LClassUser, LClassPost, LColId, LFieldTitle>>
  /\ DeclarativeMatches(src.lines, out.file.classes[2])
  /\ ModelFieldMatches(src.lines, out.file.classes[2])
  /\ Cardinality(TablesOfClass(out.file.classes[2])) = 1

\* a class followed by another class is matched by both rules and has two
\* Table records
C12_TwoTables ==
  /\ pc = "done"
  /\ src.lines = <<LClassPost, LColId, LFieldTitle, LClassUser>>
  /\ Cardinality(TablesOfClass(out.file.classes[1])) = 2


-----------------------------------------------------------------------------
(* Properties of the declaration records. *)

\* a line of a documentation comment or of a docstring
IsDocLine(line) ==
  \/ HasTripleQuote(line)
  \/ "/**" \in Range(line)
  \/ "*/" \in Range(line)
  \/ At(Trim(line), 1) = "*"

\* the declaration of name starts on line n of a Python file
PyDeclaredAt(lines, n, keyword, name) ==
  LET t == Trim(lines[n])
  IN  \/ SubSeq(t, 1, 3) = <<keyword, SP, name>>
      \/ keyword = "def" /\ SubSeq(t, 1, 5) = <<"async", SP, "def", SP, name>>

\* the declaration of name starts on line n of a TypeScript file: the line
\* holds the keyword and the name, or it is the first decorator line of it
TsDeclaredAt(lines, n, keywords, name) ==
  \/ \E kw \in keywords : Includes(lines[n], <<kw, SP, name>>)
  \/ /\ At(lines[n], 1) = "@"
     /\ n < Len(lines)
     /\ \E kw \in keywords : Includes(lines[n + 1], <<kw, SP, name>>)

TsMethodAt(lines, n, name) == SubSeq(Trim(lines[n]), 1, 2) = <<name, "(">>

\* a function, class or method record sits on the line of its declaration
LineIsDeclaration(lines, language, rec, kind) ==
  /\ rec.line \in 1..Len(lines)
  /\ ~IsDocLine(lines[rec.line])
  /\ IF language = "python"
     THEN PyDeclaredAt(lines, rec.line, IF kind = "class" THEN "class" ELSE "def", rec.name)
     ELSE CASE kind = "function" -> TsDeclaredAt(lines, rec.line, {"function", "const"}, rec.name)
            [] kind = "class" -> TsDeclaredAt(lines, rec.line, {"class"}, rec.name)
            [] kind = "method" -> TsMethodAt(lines, rec.line, rec.name)

\* C13: for every function, method and class record either extractor
\* produces, the line number lies between 1 and the number of lines of the
\* file and is the line on which the declaration itself starts, never a line
\* of the documentation comment or docstring attached to it.
C13_DeclarationLine ==
  out # None =>
    LET f == out.file
    IN  /\ \A k \in 1..Len(f.functions) :
              LineIsDeclaration(src.lines, f.language, f.functions[k], "function")
        /\ \A k \in 1..Len(f.classes) :
              /\ LineIsDeclaration(src.lines, f.language, f.classes[k], "class")
              /\ \A m \in 1..Len(f.classes[k].methods) :
                    LineIsDeclaration(src.lines, f.language, f.classes[k].methods[m],
                                      "method")

\* a function or a method that carries a description, taken from the comment
\* or docstring lines above it, has been extracted with a line number
\* greater than 1
C13_DocumentedBelowComment ==
  /\ out # None
  /\ \/ \E k \in 1..Len(out.file.functions) :
           /\ out.file.functions[k].description # Undefined
           /\ out.file.functions[k].line > 1
     \/ \E k \in 1..Len(out.file.classes) :
           \E m \in 1..Len(out.file.classes[k].methods) :
              /\ out.file.classes[k].methods[m].description # Undefined
              /\ out.file.classes[k].methods[m].line > 1


-----------------------------------------------------------------------------
(* Properties of the accumulators of generateIndex. *)

\* the catalog markers of the model and their display labels
MarkerLabel == [flask |-> "Flask", express |-> "Express", typeorm |-> "TypeORM"]

\* the UTF-16 code unit of the first letter of a label
FirstCodeUnit(label) ==
  CASE label = "Express" -> 69 [] label = "Flask" -> 70 [] label = "TypeORM" -> 84

\* an import record whose source holds the marker
ImportMatches(imp, marker) == marker \in Range(imp.source)

\* the files of the project model with an import record that matches the marker
FilesMatching(marker) ==
  {k \in 1..Len(projectIndex.files) :
     \E i \in 1..Len(projectIndex.files[k].imports) :
        ImportMatches(projectIndex.files[k].imports[i], marker)}

\* C14: technology tagging is idempotent: when generateIndex has returned,
\* the technology list holds the label of a marker exactly once if an import
\* record of some listed file matches the marker, however many do, and not
\* at all otherwise; and the list is sorted.
C14_TechnologyOnce ==
  pc = "finished" =>
    LET stack == projectIndex.techStack
    IN  /\ \A m \in DOMAIN MarkerLabel :
              Cardinality({n \in 1..Len(stack) : stack[n] = MarkerLabel[m]})
                = IF FilesMatching(m) # {} THEN 1 ELSE 0
        /\ \A n \in 1..Len(stack) : \E m \in DOMAIN MarkerLabel : stack[n] = MarkerLabel[m]
        /\ \A a, b \in 1..Len(stack) :
              a < b => FirstCodeUnit(stack[a]) < FirstCodeUnit(stack[b])

\* a run has returned in which the import records of two files match the
\* same marker, and the list holds its label once
C14_MarkerMatchedTwice ==
  /\ pc = "finished"
  /\ Cardinality(FilesMatching("typeorm")) = 2
  /\ projectIndex.techStack = <<"TypeORM">>


\* a is an initial part of b
IsPrefix(a, b) == Len(a) <= Len(b) /\ SubSeq(b, 1, Len(a)) = a

\* the place of a file in the enumeration, by its relative path
EnumPos(rel) == CHOOSE k \in 1..Len(files) : RelativePath(files[k].path) = rel

\* the records of a list come in the order in which their files were enumerated
InEnumOrder(recs) ==
  \A a, b \in 1..Len(recs) : a < b => EnumPos(recs[a].file) <= EnumPos(recs[b].file)

\* C15: during one pass of generateIndex the accumulators only grow: a step
\* of the pass leaves every entry of the file list, the endpoint list and
\* the table list in place and adds at the end, removes no technology and
\* lowers no count; and the entries are in file-enumeration order.
C15_AccumulatorsGrow ==
  /\ [][runs' = runs =>
          /\ IsPrefix(projectIndex.files, projectIndex'.files)
          /\ IsPrefix(apiEndpoints, apiEndpoints')
          /\ IsPrefix(dbTables, dbTables')
          /\ detectedTechs \subseteq detectedTechs'
          /\ projectIndex'.fileCount >= projectIndex.fileCount
          /\ projectIndex'.functionCount >= projectIndex.functionCount
          /\ projectIndex'.classCount >= projectIndex.classCount]_vars
  /\ [](/\ \A a, b \in 1..Len(projectIndex.files) :
              a < b => EnumPos(projectIndex.files[a].relativePath)
                         < EnumPos(projectIndex.files[b].relativePath)
        /\ InEnumOrder(apiEndpoints)
        /\ InEnumOrder(dbTables))

\* the second file of a batch has been processed and both files have
\* contributed a file record and an endpoint
C15_TwoFilesAccumulated ==
  /\ pos = 2
  /\ Len(projectIndex.files) = 2
  /\ \E a, b \in 1..Len(apiEndpoints) :
        /\ a < b
        /\ apiEndpoints[a].file = projectIndex.files[1].relativePath
        /\ apiEndpoints[b].file = projectIndex.files[2].relativePath


-----------------------------------------------------------------------------
(* Properties of the extension's commands and of auto-refresh. *)

\* C16: after a successful generation with Markdown output, the Open
\* command, invoked from the command palette or by a click on the status
\* bar item, opens the index file that the generation wrote and does not
\* report it as not found.
C16_OpenShowsGenerated ==
  /\ pc = "finished"
  /\ MarkdownName \in extension.disk
  /\ extension.event \in {"open", "click"}
  => /\ extension.opened = MarkdownName
     /\ extension.message = ""

\* a generation has written its Markdown file and the Open command, invoked
\* afterwards from the command palette, has reported the index as not found
\* and opened nothing
C16_NotFoundAfterGenerate ==
  /\ pc = "finished"
  /\ MarkdownName \in extension.disk
  /\ IndexPathName \notin extension.disk
  /\ extension.event = "open"
  /\ extension.message = "notFound"
  /\ extension.opened = ""


\* the settings in force according to the README: the keys of the section
\* omen, each with its default when it is not set
ReadmeConfig(settings) ==
  IF settings.section = ReadmeSection
  THEN [autoRefresh |-> settings.autoRefresh, debounceDelay |-> settings.debounceDelay]
  ELSE [autoRefresh |-> TRUE, debounceDelay |-> 3000]

\* under the configuration cfg(settings): at most one timer is pending,
\* with delay max(debounceDelay, 1000), and without autoRefresh there is no
\* timer and no refresh
DebounceState(cfg(_)) ==
  /\ Cardinality(extension.timers) <= 1
  /\ \A t \in extension.timers :
        t.delay = Max({cfg(extension.settings).debounceDelay, 1000})
  /\ ~cfg(extension.settings).autoRefresh =>
        extension.timers = {} /\ extension.event # "timer"

\* a file event leaves the timer it arms as the only one, and a refresh is
\* started by the timer of the last event
DebounceStep ==
  /\ extension'.nextId > extension.nextId =>
        \E t \in extension'.timers :
           extension'.timers = {t} /\ t.id = extension.nextId
  /\ extension'.event = "timer" /\ runs' = runs + 1 =>
        /\ \E t \in extension.timers :
              extension.timers = {t} /\ t.id = extension.nextId - 1
        /\ extension'.timers = {}

\* C17: auto-refresh is debounced: every file event cancels the pending
\* refresh timer and arms a new one with delay max(debounceDelay, 1000) ms,
\* so at most one timer is pending and a burst of events triggers one
\* refresh, after the last event; and with autoRefresh disabled no event
\* triggers a refresh.  The settings are those the README documents.
C17_Debounced == [](DebounceState(ReadmeConfig)) /\ [][DebounceStep]_vars

\* the same with the settings as getConfig reads them
C17_DebouncedAsRead == [](DebounceState(getConfig)) /\ [][DebounceStep]_vars

\* omen.autoRefresh is set to false and a refresh started by the debounce
\* timer is under way
C17_RefreshWhileDisabled ==
  /\ extension.settings.section = ReadmeSection
  /\ ~extension.settings.autoRefresh
  /\ extension.event = "timer"
  /\ pc = "loop"


-----------------------------------------------------------------------------
(* Properties of the line rules of parsePythonFile. *)

\* the quote that is open after the tokens k.. of a line, open being the one
\* open before them ("" for none): a triple quote opens a string when none
\* is open and closes the string opened by the same quote
RECURSIVE QuoteScan(_, _, _)
QuoteScan(line, k, open) ==
  IF k > Len(line) THEN open
  ELSE QuoteScan(line, k + 1,
                 IF line[k] \notin {TQ, TSQ} THEN open
                 ELSE IF open = "" THEN line[k]
                 ELSE IF open = line[k] THEN "" ELSE open)

\* the quote of the string that is open where line n begins
RECURSIVE OpenQuoteAt(_, _)
OpenQuoteAt(lines, n) ==
  IF n = 1 THEN "" ELSE QuoteScan(lines[n - 1], 1, OpenQuoteAt(lines, n - 1))

\* line n lies between the opening and the closing line of a string
InsideString(lines, n) ==
  /\ OpenQuoteAt(lines, n) # ""
  /\ OpenQuoteAt(lines, n) \notin Range(lines[n])

\* what parsePythonFile has recorded, and the class it attributes members to
PyRecords(s) == <<s.classes, s.functions, s.imports, s.currentClass>>

\* the loop has just examined a line for which inert holds and has left the
\* records and the class context as they were
InertStep(inert(_, _)) ==
  pc = "parsePythonFile" /\ scan'.i > scan.i /\ inert(src.lines, scan.i + 1)
    => PyRecords(scan') = PyRecords(scan)

\* line n is inside a string whose opening line holds one triple quote and
\* whose lines up to n hold none
PlainInside(lines, n) ==
  \E m \in 1..(n - 1) :
     /\ OpenQuoteAt(lines, m) = ""
     /\ Count(lines[m], TQ) + Count(lines[m], TSQ) = 1
     /\ \A k \in (m + 1)..n : ~HasTripleQuote(lines[k])

\* C18: no line lying between the opening and the closing line of a
\* multi-line triple-quoted string produces or modifies a class, property,
\* method, function or import record, or closes the class context, whatever
\* text it contains.
C18_StringLinesInert == [][InertStep(InsideString)]_vars

\* the same for the strings that hold no triple quote between their opening
\* and their closing line
C18_PlainStringLinesInert == [][InertStep(PlainInside)]_vars

\* a string opened by """ holds a line '''raw''' and then a line shaped
\* like a class header, and the header has produced a class record
C18_ClassFromStringLine ==
  /\ pc = "parsePythonFile"
  /\ Len(src.lines) >= 3
  /\ SubSeq(src.lines, 1, 3) = <<LDocBare, LRawNote, LClassUser>>
  /\ InsideString(src.lines, 3)
  /\ scan.i = 3
  /\ Len(scan.classes) = 1



\* the column rule is the one that handles the line the loop is about to read
ColumnApplies(s, line) ==
  /\ ~HasTripleQuote(line)
  /\ ~s.inDocstring
  /\ ~ClassMatch(line)
  /\ s.currentClass # 0
  /\ Indent(line) > s.currentIndent
  /\ ColumnMatch(line)

\* the last line of a call of which depth parentheses are open at the end of
\* line n: the line on which the depth returns to zero, or the last line
RECURSIVE CallEnd(_, _, _)
CallEnd(lines, n, depth) ==
  IF depth <= 0 \/ n >= Len(lines) THEN n
  ELSE CallEnd(lines, n + 1, depth + ParenBalance(lines[n + 1]))

\* the line on which the Column( call of line n is closed, the depth being
\* counted from the parenthesis of the call
CallCloseLine(lines, n) ==
  LET c == ColumnPos(lines[n])
  IN  CallEnd(lines, n, ParenBalance(SubSeq(lines[n], c + 1, Len(lines[n]))))

\* the column rule has just handled a line and the cursor stands where
\* resume says, given the lines and the number of the handled line
ColumnStep(resume(_, _, _)) ==
  pc = "parsePythonFile" /\ scan'.i > scan.i
     /\ ColumnApplies(scan, src.lines[scan.i + 1])
    => resume(scan'.i, src.lines, scan.i + 1)

AfterCall(i, lines, n) == i = CallCloseLine(lines, n)

WithinCall(i, lines, n) == i >= n /\ i <= CallCloseLine(lines, n)

\* C19: when a name = Column( call spans several lines, every continuation
\* line up to and including the one on which the call's own closing
\* parenthesis returns the depth to zero is consumed by the column rule: the
\* line cursor resumes on the first line after the call, and no continuation
\* line is examined by another rule.
C19_ColumnCallConsumed == [][ColumnStep(AfterCall)]_vars

\* the column rule never consumes a line beyond the end of the call
C19_ColumnStaysWithinCall == [][ColumnStep(WithinCall)]_vars

\* the call email = Column(String(120), ... is closed on the next line, and
\* that line has been examined by the docstring rule, which has taken the
\* text of its doc argument as the pending description
C19_ContinuationExamined ==
  /\ pc = "parsePythonFile"
  /\ src.lines = <<LClassUser, LColEmailOpen, LColEmailDoc>>
  /\ CallCloseLine(src.lines, 2) = 3
  /\ scan.i = 3
  /\ scan.classes[1].properties = <<<<"email", ":", SP, "String">>>>
  /\ scan.pendingDocstring = <<"Primary", SP, "address">>

\* the call role_id = Column(Integer, ForeignKey( ... has been consumed with
\* its second line
C19_NestedCallConsumed ==
  /\ pc = "parsePythonFile"
  /\ src.lines = <<LClassUser, LColRoleOpen, LColRoleClose>>
  /\ scan.i = 3
  /\ Len(scan.classes[1].properties) = 1
  /\ scan.pendingDocstring = Undefined



\* a non-blank line at indentation zero that is not a class header
TopLevelLine(line) == Indent(line) = 0 /\ Trim(line) # <<>> /\ ~ClassMatch(line)

\* the loop has just read, while a class was open, a top-level line for
\* which applies holds, and has closed the class context
ResetStep(applies(_, _)) ==
  pc = "parsePythonFile" /\ scan'.i > scan.i /\ scan.currentClass # 0
     /\ TopLevelLine(src.lines[scan.i + 1])
     /\ applies(scan, src.lines[scan.i + 1])
    => scan'.currentClass = 0

AnyLine(s, line) == TRUE

\* the line holds no triple quote and is outside of a docstring
OutsideDocstring(s, line) == ~HasTripleQuote(line) /\ ~s.inDocstring

\* C20: after any non-blank zero-indentation line that is not a class
\* header, read while a class is open, the class context is closed, so that
\* no later indented attribute or method line is attributed to that class
\* until a new class header is read.
C20_TopLevelClosesClass == [][ResetStep(AnyLine)]_vars

\* the same for the lines the docstring rule does not take
C20_PlainTopLevelClosesClass == [][ResetStep(OutsideDocstring)]_vars

\* the top-level statement '''raw''' has been read after the header of User
\* and the method line below it has been attributed to User
C20_MethodAfterTopLevelString ==
  /\ pc = "parsePythonFile"
  /\ src.lines = <<LClassUser, LRawNote, LDefSave>>
  /\ OpenQuoteAt(src.lines, 2) = ""
  /\ scan.i = 3
  /\ Len(scan.classes[1].methods) = 1
  /\ scan.classes[1].methods[1].name = "save"

\* the top-level import has closed the class context: the method line below
\* it has produced no record
C20_ImportClosedClass ==
  /\ pc = "parsePythonFile"
  /\ src.lines = <<LClassUser, LImportOs, LDefSave>>
  /\ scan.i = 3
  /\ scan.currentClass = 0
  /\ scan.classes[1].methods = <<>>



\* the descriptions of the records the step from the locals s to t has created
CreatedDescriptions(s, t) ==
  {t.classes[k].description : k \in (Len(s.classes) + 1)..Len(t.classes)}
  \cup {t.functions[k].description : k \in (Len(s.functions) + 1)..Len(t.functions)}
  \cup (IF s.currentClass = 0 \/ Len(t.classes) # Len(s.classes) THEN {}
        ELSE {t.classes[s.currentClass].methods[k].description :
                k \in (Len(s.classes[s.currentClass].methods) + 1)
                      ..Len(t.classes[s.currentClass].methods)})

\* the number of class, method and function records that carry a description
DescribedCount(s, n) ==
  Cardinality({k \in 1..Len(s.classes) : s.classes[k].description # Undefined})
  + Cardinality({k \in 1..Len(s.functions) : s.functions[k].description # Undefined})
  + Cardinality({p \in (1..Len(s.classes)) \X (1..n) :
                   /\ p[2] <= Len(s.classes[p[1]].methods)
                   /\ s.classes[p[1]].methods[p[2]].description # Undefined})

\* the number of the first n lines that hold a triple quote
QuoteLineCount(lines, n) == Cardinality({k \in 1..n : HasTripleQuote(lines[k])})

\* every record created by a step carries the docstring that was pending
\* before the step, and the step leaves no docstring pending
AttachStep ==
  pc = "parsePythonFile" /\ scan'.i > scan.i =>
    \A d \in CreatedDescriptions(scan, scan') :
       d = scan.pendingDocstring /\ scan'.pendingDocstring = Undefined

\* there are no more described records, the pending docstring included, than
\* docstrings read so far
AttachedOnce ==
  pc = "parsePythonFile" =>
    DescribedCount(scan, Len(src.lines))
      + (IF scan.pendingDocstring # Undefined THEN 1 ELSE 0)
      <= QuoteLineCount(src.lines, scan.i)

\* C21: a completed docstring becomes the pending description, attaches to
\* the next declaration record created after it (class, method or top-level
\* function) and is cleared on attaching: one docstring is the description
\* of at most one record, and a declaration created with no docstring
\* pending has no description.
C21_DocstringAttachesOnce == []AttachedOnce /\ [][AttachStep]_vars

\* a docstring has been attached to the first of two methods and the second,
\* created with nothing pending, has no description
C21_SecondMethodUndescribed ==
  /\ pc = "parsePythonFile"
  /\ src.lines = <<LClassUser, LRawNote, LDefSave, LDefSave>>
  /\ scan.i = 4
  /\ scan.classes[1].methods[1].description = <<"raw">>
  /\ scan.classes[1].methods[2].description = Undefined
  /\ scan.pendingDocstring = Undefined



-----------------------------------------------------------------------------
(* Properties of the route and schema detectors. *)

\* the lines above line n, at distances within D, that hold a route decorator
DecoratorsAbove(lines, n, D) ==
  {k \in D : n - k >= 1 /\ n - k <= Len(lines) /\ RoutePath(lines[n - k]) # <<>>}

\* the Flask detector has emitted an endpoint for func
FlaskFound(func) ==
  /\ FlaskEndpointsOf(func, out.file, src.lines) # <<>>
  /\ \E e \in Range(out.endpoints) : e.handler = <<func.name>> /\ e.line = func.line

\* for every function of a Python file, an endpoint is emitted exactly when
\* a route decorator stands at a distance within D above the declaration
ScanCovers(D) ==
  pc = "done" /\ out.file.language = "python" =>
    \A k \in 1..Len(out.file.functions) :
       LET func == out.file.functions[k]
       IN  FlaskFound(func) <=> DecoratorsAbove(src.lines, func.line, D) # {}

\* C22: for each extracted function declared on line L the decorator scan
\* covers exactly the up-to-10 lines immediately preceding L (L-10 .. L-1,
\* clipped at line 1): a route decorator k lines above the declaration is
\* found for every 1 <= k <= 10 and is not found for k > 10.
C22_ScanWindow == ScanCovers(1..FlaskWindow)

\* the lines the loop reads: the declaration line and the nine above it
C22_ScanWindowAsRead == ScanCovers(0..(FlaskWindow - 1))

\* a route decorator stands ten lines above the declaration of list_widgets
\* and no endpoint has been emitted
C22_TenAboveMissed ==
  /\ pc = "done"
  /\ src.lines = GapLines(9)
  /\ out.file.functions[1].line = 11
  /\ DecoratorsAbove(src.lines, 11, 1..FlaskWindow) = {10}
  /\ out.endpoints = <<>>

\* the decorator nine lines above the declaration has been found
C22_NineAboveFound ==
  /\ pc = "done"
  /\ src.lines = GapLines(8)
  /\ Len(out.endpoints) = 1
  /\ out.endpoints[1].line = 10



\* the names of the `name = models.XField(args)` occurrences in the lines
\* from the header of cls to the next top-level class header or the end
SliceFieldNames(lines, cls) ==
  UNION {{ModelColumn(lines[n], k).name :
            k \in {q \in 1..Len(lines[n]) : ModelFieldAt(lines[n], q) # 0}} :
         n \in cls.line..SliceEnd(lines, cls.line)}

\* the names of the columns of the Table record the model-field rule has
\* made for cls, no name when it has made none
ModelTableNames(cls) ==
  LET t == DjangoTableOf(cls, out.file, Text(src.lines))
  IN  IF t = <<>> \/ t[1] \notin Range(out.tables) THEN {}
      ELSE {t[1].columns[c].name : c \in 1..Len(t[1].columns)}

\* for the classes of a file with the model marker that satisfy applies, the
\* fields recorded are those of the class's own slice
SliceScanned(applies(_, _)) ==
  pc = "done" /\ out.file.language = "python"
     /\ Includes(Text(src.lines), <<"models", ".", "Model">>) =>
    \A k \in 1..Len(out.file.classes) :
       applies(src.lines, out.file.classes[k]) =>
         ModelTableNames(out.file.classes[k])
           = SliceFieldNames(src.lines, out.file.classes[k])

AnyClass(lines, cls) == TRUE

\* another class header follows cls, and no earlier class has its name
InnerClass(lines, cls) ==
  /\ SliceEnd(lines, cls.line) < Len(lines)
  /\ \A n \in 1..(cls.line - 1) :
        ~(IsClassHeader(lines[n]) /\ At(lines[n], 3) = cls.name)

\* C23: for each class of a file containing the model marker, the text
\* scanned for `name = models.XField(args)` occurrences is the slice from
\* the class's header to the next top-level class header, or to the end of
\* the file when the class is the last one: the fields of the last class are
\* found and no field written before a class's header is attributed to it.
C23_ModelFieldSlice == SliceScanned(AnyClass)

\* the same for the classes that are followed by another class
C23_InnerClassSlice == SliceScanned(InnerClass)

\* the only class of the file declares the field title and has no Table
C23_LastClassFieldsLost ==
  /\ pc = "done"
  /\ src.lines = <<LClassPost, LFieldTitle>>
  /\ SliceFieldNames(src.lines, out.file.classes[1]) = {<<"title">>}
  /\ out.tables = <<>>

\* the field title of Post, written above the header of User, is a column
\* of the Table of User
C23_EarlierFieldAttributed ==
  /\ pc = "done"
  /\ src.lines = <<LClassPost, LFieldTitle, LClassUser>>
  /\ SliceFieldNames(src.lines, out.file.classes[2]) = {}
  /\ ModelTableNames(out.file.classes[2]) = {<<"title">>}



\* the lines on which the property name is declared: name, then a colon
PropertyLines(lines, name) ==
  {n \in 1..Len(lines) :
     /\ Len(Trim(lines[n])) > Len(name)
     /\ SubSeq(Trim(lines[n]), 1, Len(name) + 1) = name \o <<":">>}

\* the decorators in D that stand on the line directly above a declaration
\* of the property name
DecoratorsOf(lines, name, D) ==
  {n \in PropertyLines(lines, name) :
     n > 1 /\ At(Trim(lines[n - 1]), 1) = "@" /\ At(Trim(lines[n - 1]), 2) \in D}

\* the declarations of name that satisfy applies are classified from the
\* column decorator on the line above
ClassifiedFrom(applies(_)) ==
  pc = "done" /\ out.file.language \in {"typescript", "javascript"} =>
    \A t \in 1..Len(out.tables) : \A c \in 1..Len(out.tables[t].columns) :
       LET col == out.tables[t].columns[c]
           P == {n \in PropertyLines(src.lines, col.name) : applies(src.lines[n])}
           decorated(D) == DecoratorsOf(src.lines, col.name, D) \cap P
       IN  P # {} =>
             /\ decorated({"PrimaryColumn"}) # {} => col.primary
             /\ (\E n \in decorated({"Column"}) :
                   Includes(src.lines[n - 1], <<"nullable", ":", SP, "true">>))
                  => col.nullable
             /\ decorated({"Column", "PrimaryColumn"}) = {}
                  => ~col.primary /\ ~col.nullable

AnyIndent(line) == TRUE

NoIndent(line) == Indent(line) = 0

\* C24: in a file containing the entity marker, a class property whose
\* directly preceding line is a column decorator is classified from that
\* decorator whatever the property's indentation: @PrimaryColumn gives
\* primary = true, a @Column decorator containing `nullable: true` gives
\* nullable = true, and a property with no column decorator above it gives
\* primary = false and nullable = false.
C24_ClassifiedFromDecorator == ClassifiedFrom(AnyIndent)

\* the same for the properties declared at the beginning of a line
C24_UnindentedClassified == ClassifiedFrom(NoIndent)

\* the property id, indented by two spaces below @PrimaryColumn(), has a
\* column that is not primary
C24_IndentedPrimaryMissed ==
  /\ pc = "done"
  /\ src.lines = BEntity.lines
  /\ DecoratorsOf(src.lines, <<"id">>, {"PrimaryColumn"}) = {4}
  /\ Len(out.tables) = 1
  /\ out.tables[1].columns[1].name = <<"id">>
  /\ ~out.tables[1].columns[1].primary

\* the unindented property body below @Column({ nullable: true }) has a
\* nullable column, the undecorated property title has not
C24_UnindentedNullable ==
  /\ pc = "done"
  /\ src.lines = BEntityFlat.lines
  /\ Len(out.tables) = 1
  /\ out.tables[1].columns[1].nullable
  /\ ~out.tables[1].columns[2].nullable



\* the verb calls of one line: <<position, index of the verb>> where app. or
\* router. and the verb stand, followed by "(" and a quoted, non-empty path
CallsOnLine(line) ==
  {c \in (1..Len(line)) \X (1..Len(ExpressVerbs)) :
     LET k == c[1]
         o == SkipWs(line, k + 3)
         q == SkipWs(line, o + 1)
     IN  /\ At(line, k) \in {"app", "router"}
         /\ At(line, k + 1) = "."
         /\ At(line, k + 2) = ExpressVerbs[c[2]]
         /\ At(line, o) = "("
         /\ At(line, q) \in QuoteChars
         /\ At(line, q + 1) \notin QuoteChars
         /\ At(line, q + 2) \in QuoteChars}

\* the Endpoint expected for the call c of line n
CallEndpoint(lines, n, c) ==
  [method |-> ExpressMethods[c[2]],
   path |-> <<lines[n][SkipWs(lines[n], SkipWs(lines[n], c[1] + 3) + 1) + 1]>>,
   handler |-> <<"handler">>,
   line |-> n]

\* what an Endpoint record says of a call
CallShown(e) == [method |-> e.method, path |-> e.path, handler |-> e.handler, line |-> e.line]

\* the Endpoint records of the prefix/call rule: it runs first on a
\* TypeScript or JavaScript file
ExpressEmitted ==
  SubSeq(out.endpoints, 1, Len(extractExpressRoutes(out.file, src.lines, <<>>)))

\* C25: for a TypeScript or JavaScript file exactly one Endpoint is emitted
\* per occurrence of app.<verb>( or router.<verb>( followed by a quoted
\* path, for the verbs get, post, put, delete and patch: its method is the
\* upper-cased verb, its path the quoted literal, its handler 'handler', and
\* its line 1 plus the number of newlines before the match.
C25_OneEndpointPerCall ==
  pc = "done" /\ out.file.language \in {"typescript", "javascript"} =>
    LET calls == UNION {{<<n, c>> : c \in CallsOnLine(src.lines[n])} :
                        n \in 1..Len(src.lines)}
        E == ExpressEmitted
    IN  /\ Len(E) = Cardinality(calls)
        /\ Len(E) <= Len(out.endpoints)
        /\ ExpressEmitted = extractExpressRoutes(out.file, src.lines, <<>>)
        /\ \A p \in calls :
              Cardinality({k \in 1..Len(E) :
                             CallShown(E[k]) = CallEndpoint(src.lines, p[1], p[2])})
                = Cardinality({r \in calls :
                                 CallEndpoint(src.lines, r[1], r[2])
                                   = CallEndpoint(src.lines, p[1], p[2])})

\* a file with a get call on line 2 and a post call on line 3 has given the
\* two Endpoints, each on the line of its call
C25_TwoCallsTwoEndpoints ==
  /\ pc = "done"
  /\ src.lines = BFnAdd.lines \o BExpress.lines \o BExpressPost.lines
  /\ Len(out.endpoints) = 2
  /\ out.endpoints[1].method = "GET" /\ out.endpoints[1].path = <<"/users">>
  /\ out.endpoints[1].line = Len(BFnAdd.lines) + 1
  /\ out.endpoints[2].method = "POST"
  /\ out.endpoints[2].line = Len(BFnAdd.lines) + 2



-----------------------------------------------------------------------------
(* Properties of the project model. *)

\* the three counters of the project model p agree with its File Records
CountsAgree(p) ==
  /\ p.fileCount = Len(p.files)
  /\ p.functionCount = Len(Flatten([k \in 1..Len(p.files) |-> p.files[k].functions]))
  /\ p.classCount = Len(Flatten([k \in 1..Len(p.files) |-> p.files[k].classes]))

\* C26: after every iteration of the per-file loop, and in the returned
\* result, fileCount is the number of File Records of the model,
\* functionCount the sum of the lengths of their top-level function lists
\* (class methods are not counted) and classCount the sum of the lengths of
\* their class lists.
C26_CountsAgree ==
  /\ CountsAgree(projectIndex)
  /\ written # None => CountsAgree(written)

\* a run over two files has finished: one function, one class with a method
C26_MethodNotCounted ==
  /\ pc = "finished"
  /\ written.fileCount = 2
  /\ written.functionCount = 1
  /\ written.classCount = 1
  /\ \E k \in 1..2 : \E c \in 1..Len(written.files[k].classes) :
        Len(written.files[k].classes[c].methods) > 0



\* the loop has just read line n while a docstring was open, n lying inside
\* the string opened by the quote q, and the docstring is open afterwards
\* exactly if stays holds of q and the line
StringStep(stays(_, _)) ==
  pc = "parsePythonFile" /\ scan'.i > scan.i /\ scan.inDocstring
     /\ OpenQuoteAt(src.lines, scan.i + 1) # ""
    => (scan'.inDocstring
          <=> stays(OpenQuoteAt(src.lines, scan.i + 1), src.lines[scan.i + 1]))

\* the line does not hold the quote q
OtherStyleOnly(q, line) == q \notin Range(line)

\* the line holds no triple quote at all
NoTripleQuote(q, line) == ~HasTripleQuote(line)

\* C27: a multi-line triple-quoted string is closed only by a line that
\* contains the quote style that opened it; a line inside a """ string that
\* contains ''' (or the reverse) is string content and does not end the
\* string.
C27_ClosedBySameStyle == [][StringStep(OtherStyleOnly)]_vars

\* the string is closed by the first line that holds a triple quote of
\* either style
C27_ClosedByAnyStyle == [][StringStep(NoTripleQuote)]_vars

\* a string opened by """ has been ended by its second line, which holds
\* ''' only, and is open in the text
C27_EndedByOtherStyle ==
  /\ pc = "parsePythonFile"
  /\ src.lines = <<LDocOpen, LDocInnerQuote, LDocClose>>
  /\ scan.i = 2
  /\ OpenQuoteAt(src.lines, 3) = TQ
  /\ ~scan.inDocstring



\* the decorator lines of the declaration below line n: the lines beginning
\* with "@" that stand above it with nothing but blank lines in between
RECURSIVE OwnDecorators(_, _)
OwnDecorators(lines, n) ==
  IF n < 1 THEN {}
  ELSE IF Trim(lines[n]) = <<>> THEN OwnDecorators(lines, n - 1)
  ELSE IF At(Trim(lines[n]), 1) = "@" THEN {n} \cup OwnDecorators(lines, n - 1)
  ELSE {}

\* the paths of the route decorators that belong to the function on line n
OwnRoutePaths(lines, n) ==
  {RoutePath(lines[d]) : d \in {o \in OwnDecorators(lines, n - 1) :
                                  RoutePath(lines[o]) # <<>>}}

\* the functions satisfying applies emit endpoints from their own route
\* decorators only
OwnRoutesOnly(applies(_, _)) ==
  pc = "done" /\ out.file.language = "python" =>
    \A k \in 1..Len(out.file.functions) :
       LET func == out.file.functions[k]
           E == FlaskEndpointsOf(func, out.file, src.lines)
       IN  applies(src.lines, func.line) =>
             \A e \in Range(E) :
                /\ e \in Range(out.endpoints)
                /\ e.path \in OwnRoutePaths(src.lines, func.line)

AnyFunction(lines, n) == TRUE

\* no other function is declared on the nine lines above line n
NoFunctionAbove(lines, n) ==
  \A m \in 1..(n - 1) : n - m < FlaskWindow => ~FuncMatch(lines[m])

\* C28: an endpoint is emitted for a function only from a route decorator
\* that belongs to that function; a function with no route decorator of its
\* own emits no endpoint, even when the route decorator of another function
\* lies within the ten lines above it.
C28_OwnDecoratorOnly == OwnRoutesOnly(AnyFunction)

\* the same for the functions with no other function declared in the lines
\* the scan reads
C28_OwnDecoratorWhenAlone == OwnRoutesOnly(NoFunctionAbove)

\* get_thing has no decorator, stands below the decorated list_widgets, and
\* has an endpoint with the path of the decorator of list_widgets
C28_NeighbourRouteTaken ==
  /\ pc = "done"
  /\ src.lines = <<LRouteThings, LDefListWidgets, LDefGetThing>>
  /\ OwnDecorators(src.lines, 2) = {}
  /\ Len(out.endpoints) = 2
  /\ out.endpoints[2].handler = <<"get_thing">>
  /\ out.endpoints[2].path = out.endpoints[1].path



\* the lines of a source that begin with import or from
ImportingLines(f) ==
  {n \in 1..Len(f.lines) : At(f.lines[n], 1) \in {"import", "from"}}

CursorInFile == pc = "parsePythonFile" => scan.i \in 0..Len(src.lines)

\* every iteration of the loop moves the line cursor forward, and the loop
\* is left when the cursor has passed the last line
CursorAdvances ==
  pc = "parsePythonFile" =>
    IF scan.i < Len(src.lines)
    THEN pc' = "parsePythonFile" /\ scan'.i > scan.i
    ELSE pc' = "detect" /\ scan' = scan

\* C30: the heuristic line scanner terminates on every input: its line
\* cursor strictly increases on every iteration of the outer loop, the
\* column-continuation loop only moves it forward and stops at the last
\* line, so each line is examined by the outer rules at most once and the
\* scan ends after at most as many iterations as the file has lines.
C30_ScannerTerminates == []CursorInFile /\ [][CursorAdvances]_vars

\* the scan of a file of three lines has ended with the cursor on the last
\* line, the column-continuation loop having consumed it
C30_ContinuationReachedEnd ==
  /\ pc = "detect"
  /\ src.lines = <<LClassUser, LColRoleOpen, LColRoleClose>>
  /\ scan.i = Len(src.lines)
  /\ Len(scan.classes[1].properties) = 1

====
